---- MODULE Spec2Model ----
(***************************************************************************)
(* URL-Navigator: the bookmark tree of models/data_manager.py (DataManager)*)
(* and the interchange service of services/import_export.py.               *)
(*                                                                         *)
(* A Python dict is an ordered mapping: it is modelled as a sequence of    *)
(* entries [k |-> key, v |-> value] in insertion order.  A folder node is  *)
(* the record [type |-> "folder", children |-> dict] (update_item may add  *)
(* a "name" field), a url node is [type |-> "url", url, name, icon], where *)
(* the icon field is optional in loaded and imported documents.            *)
(* Strings of the source that are not ASCII are written in ASCII here, the *)
(* original is given in a comment beside each.                             *)
(***************************************************************************)
EXTENDS Naturals, Sequences, FiniteSets, TLC

(* ------------------------------ bounds --------------------------------- *)

\* The tree store operations are explored on results of at most this many nodes.
MaxNodes == 2

\* The names the callers supply
Names == {"A", "B"}

RECURSIVE SeqsUpTo(_, _)
SeqsUpTo(S, n) ==
  IF n = 0 THEN {<<>>}
  ELSE LET shorter == SeqsUpTo(S, n - 1)
       IN  shorter \cup {Append(p, x) : p \in shorter, x \in S}

\* The paths handed to the operations: a longer path resolves in no tree of the bound
Paths == SeqsUpTo(Names, MaxNodes)

\* The paths handed as the folder of an item the operation names: a longer
\* path has no child in any tree of the bound
ParentPaths == SeqsUpTo(Names, MaxNodes - 1)

(* ------------------------- Python dict operations ---------------------- *)

\* `k in d`
DictHas(d, k) == \E i \in 1..Len(d) : d[i].k = k

DictIndex(d, k) == CHOOSE i \in 1..Len(d) : d[i].k = k

\* `d[k]` for a key that is present
DictGet(d, k) == d[DictIndex(d, k)].v

\* `d[k] = v`: an existing key keeps its position, a new key is appended
DictSet(d, k, v) ==
  IF DictHas(d, k)
  THEN [d EXCEPT ![DictIndex(d, k)] = [k |-> k, v |-> v]]
  ELSE Append(d, [k |-> k, v |-> v])

\* A faulty pop, which also drops the entries after the key; used to test
\* that the frame of delete_item is checked
DictPopTail(d, k) == SubSeq(d, 1, DictIndex(d, k) - 1)

\* `d.pop(k)` / `del d[k]` for a key that is present: the remaining entries keep their order
DictPop(d, k) ==
  LET i == DictIndex(d, k)
  IN  SubSeq(d, 1, i - 1) \o SubSeq(d, i + 1, Len(d))

DictKeys(d) == {d[i].k : i \in 1..Len(d)}

\* `x.get(key, default)` on the item_data argument, a set of <<key, value>> pairs
ItemDataGet(item_data, key, default) ==
  IF \E p \in item_data : p[1] = key
  THEN (CHOOSE p \in item_data : p[1] = key)[2]
  ELSE default

(* --------------------------- icon paths -------------------------------- *)

\* "resources/icons/globe.png", the default icon
DefaultIcon == "resources/icons/globe.png"

\* Icon paths that start with "resources/"
ResourceIcons == {"resources/icons/globe.png", "resources/icons/star.png"}

\* Absolute icon paths whose file exists (already normalised)
ExistingAbsIcons == {"/home/u/.url_navigator/icons/a.ico"}

\* Relative icon paths whose basename exists under resources/icons
BasenameInResources == {"star.png"}

\* Relative icon paths whose basename exists under ~/.url_navigator/icons
BasenameInUserCache == {"a.ico"}

\* The url and icon path add_url is called with; "/tmp/gone.ico" names no file
UrlArgs == { [url |-> "u1", icon |-> ""],
             [url |-> "u2", icon |-> "resources/icons/star.png"],
             [url |-> "u1", icon |-> "/tmp/gone.ico"] }

\* DataManager._standardize_icon_path
StandardizeIconPath(icon_path) ==
  IF icon_path = "" THEN DefaultIcon
  ELSE IF icon_path \in ResourceIcons THEN icon_path
  ELSE IF icon_path \in ExistingAbsIcons THEN icon_path
  ELSE IF icon_path \in BasenameInResources THEN "resources/icons/" \o icon_path
  ELSE IF icon_path \in BasenameInUserCache THEN "/home/u/.url_navigator/icons/" \o icon_path
  ELSE DefaultIcon

(* ----------------------------- tree store ------------------------------ *)

\* Python's None for a lookup that fails
None == [ok |-> FALSE, val |-> <<>>]

Some(v) == [ok |-> TRUE, val |-> v]

\* DataManager.get_item_at_path: the children dict of the folder at path
RECURSIVE GetItemAtPath(_, _)
GetItemAtPath(current, path) ==
  IF path = <<>> THEN Some(current)
  ELSE LET segment == Head(path)
       IN  IF DictHas(current, segment) /\ DictGet(current, segment).type = "folder"
           THEN GetItemAtPath(DictGet(current, segment).children, Tail(path))
           ELSE None

\* A faulty lookup, which also returns a url node; used to test that the
\* result of a lookup that ends on a url node is checked
GetFolderDataAnyNode(d, path) ==
  IF path = <<>> THEN None
  ELSE LET parent == GetItemAtPath(d, SubSeq(path, 1, Len(path) - 1))
           last_segment == path[Len(path)]
       IN  IF parent.ok /\ DictHas(parent.val, last_segment)
           THEN Some(DictGet(parent.val, last_segment))
           ELSE None

\* DataManager.get_folder_data: the folder node the path names, None for the
\* empty path and for a last segment that is missing or names a url node
GetFolderData(d, path) ==
  IF path = <<>> THEN None
  ELSE LET parent == GetItemAtPath(d, SubSeq(path, 1, Len(path) - 1))
           last_segment == path[Len(path)]
       IN  IF /\ parent.ok
              /\ DictHas(parent.val, last_segment)
              /\ DictGet(parent.val, last_segment).type = "folder"
           THEN Some(DictGet(parent.val, last_segment))
           ELSE None

\* The dict get_item_at_path returns is the object inside self.data: a change
\* of it is a change of the tree at that path.
RECURSIVE StoreAtPath(_, _, _)
StoreAtPath(current, path, new) ==
  IF path = <<>> THEN new
  ELSE LET segment == Head(path)
           item    == DictGet(current, segment)
       IN  DictSet(current, segment,
                   [item EXCEPT !.children = StoreAtPath(item.children, Tail(path), new)])

\* The value an operation returns, with the logger.error branch it took
Ret(val, log) == [val |-> val, n |-> 0, log |-> log]

\* The value a lookup returns: None, or the object found
RetLookup(found) ==
  [val |-> IF found.ok THEN "dict" ELSE "None", n |-> 0, log |-> "", got |-> found.val]

\* What a call leaves: the tree, the returned value, and the tree as each
\* data_changed.emit() of the call showed it to the connected slots
Outcome(d, ret, emits) == [data |-> d, ret |-> ret, emits |-> emits]

\* DataManager.add_folder
AddFolderCall(d, path, name) ==
  LET parent == GetItemAtPath(d, path)
  IN  IF ~parent.ok THEN Outcome(d, Ret("False", "path_missing"), <<>>)
      ELSE IF DictHas(parent.val, name) THEN Outcome(d, Ret("False", "name_exists"), <<>>)
      ELSE LET new == StoreAtPath(d, path,
                        DictSet(parent.val, name, [type |-> "folder", children |-> <<>>]))
           IN  Outcome(new, Ret("True", ""), <<new>>)

\* A faulty add_url, without the check of the name; used to test that the
\* contract of the adds is checked
AddUrlUnchecked(d, path, name, url, icon) ==
  LET parent == GetItemAtPath(d, path)
  IN  IF ~parent.ok THEN Outcome(d, Ret("False", "path_missing"), <<>>)
      ELSE LET new == StoreAtPath(d, path,
                        DictSet(parent.val, name,
                                [type |-> "url", url |-> url, name |-> name,
                                 icon |-> StandardizeIconPath(icon)]))
           IN  Outcome(new, Ret("True", ""), <<new>>)

\* DataManager.add_url
AddUrlCall(d, path, name, url, icon) ==
  LET parent == GetItemAtPath(d, path)
  IN  IF ~parent.ok THEN Outcome(d, Ret("False", "path_missing"), <<>>)
      ELSE IF DictHas(parent.val, name) THEN Outcome(d, Ret("False", "name_exists"), <<>>)
      ELSE LET standardized_icon == StandardizeIconPath(icon)
               new == StoreAtPath(d, path,
                        DictSet(parent.val, name,
                                [type |-> "url", url |-> url, name |-> name,
                                 icon |-> standardized_icon]))
           IN  Outcome(new, Ret("True", ""), <<new>>)

\* A faulty update, which takes the url from item_data alone; used to test
\* that the fields item_data leaves out are checked
UpdatedUrlItemReplace(item, new_name, item_data) ==
  [type |-> "url",
   url  |-> ItemDataGet(item_data, "url", ""),
   name |-> new_name,
   icon |-> StandardizeIconPath(ItemDataGet(item_data, "icon", item.icon))]

\* The url branch of update_item: item.update({...}) on the popped item
UpdatedUrlItem(item, new_name, item_data) ==
  LET new_icon == ItemDataGet(item_data, "icon", item.icon)
      standardized_icon == StandardizeIconPath(new_icon)
  IN  [type |-> "url",
       url  |-> ItemDataGet(item_data, "url", item.url),
       name |-> new_name,
       icon |-> standardized_icon]

\* The folder branch of update_item: item["name"] = new_name
UpdatedFolderItem(item, new_name) ==
  [type |-> "folder", children |-> item.children, name |-> new_name]

\* DataManager.update_item.  item["icon"] is evaluated as the default of
\* item_data.get after the item was popped: on a url node without an icon
\* field it raises KeyError and the popped item is not put back.
UpdateItemCall(d, path, old_name, new_name, item_data) ==
  LET parent == GetItemAtPath(d, path)
  IN  IF ~parent.ok THEN Outcome(d, Ret("False", "path_missing"), <<>>)
      ELSE IF ~DictHas(parent.val, old_name)
      THEN Outcome(d, Ret("False", "item_missing"), <<>>)
      ELSE IF old_name # new_name /\ DictHas(parent.val, new_name)
      THEN Outcome(d, Ret("False", "name_exists"), <<>>)
      ELSE LET item   == DictGet(parent.val, old_name)
               popped == DictPop(parent.val, old_name)
           IN  IF item.type = "url" /\ "icon" \notin DOMAIN item
               THEN Outcome(StoreAtPath(d, path, popped), Ret("KeyError", "icon"), <<>>)
               ELSE LET updated == IF item.type = "url"
                                   THEN UpdatedUrlItem(item, new_name, item_data)
                                   ELSE UpdatedFolderItem(item, new_name)
                        new == StoreAtPath(d, path, DictSet(popped, new_name, updated))
                    IN  Outcome(new, Ret("True", ""), <<new>>)

\* A faulty delete_item, which emits data_changed before it deletes; used to
\* test that what the slots see is checked
DeleteItemEmitFirst(d, path, name) ==
  LET parent == GetItemAtPath(d, path)
  IN  IF ~parent.ok THEN Outcome(d, Ret("False", "path_missing"), <<>>)
      ELSE IF ~DictHas(parent.val, name) THEN Outcome(d, Ret("False", "item_missing"), <<>>)
      ELSE Outcome(StoreAtPath(d, path, DictPop(parent.val, name)), Ret("True", ""), <<d>>)

\* DataManager.delete_item
DeleteItemCall(d, path, name) ==
  LET parent == GetItemAtPath(d, path)
  IN  IF ~parent.ok THEN Outcome(d, Ret("False", "path_missing"), <<>>)
      ELSE IF ~DictHas(parent.val, name) THEN Outcome(d, Ret("False", "item_missing"), <<>>)
      ELSE LET new == StoreAtPath(d, path, DictPop(parent.val, name))
           IN  Outcome(new, Ret("True", ""), <<new>>)

\* A faulty comparison, which misses a target equal to the full source
\* path; used to test that the rejection of such a move is checked
IsSubpathStrict(full_source_path, target_path) ==
  /\ Len(target_path) > Len(full_source_path)
  /\ \A i \in 1..Len(full_source_path) : full_source_path[i] = target_path[i]

\* The loop of move_item that compares full_source_path with target_path
IsSubpath(full_source_path, target_path) ==
  /\ Len(target_path) >= Len(full_source_path)
  /\ \A i \in 1..Len(full_source_path) : full_source_path[i] = target_path[i]

\* The last two statements of move_item: the item is popped from the source
\* dict and set in the target dict, both objects of the tree.  A target dict
\* that was inside the popped item is no longer part of the tree.
MovedTree(d, source_path, source_name, target_path) ==
  LET source_parent == GetItemAtPath(d, source_path).val
      item     == DictGet(source_parent, source_name)
      detached == StoreAtPath(d, source_path, DictPop(source_parent, source_name))
      target_parent == GetItemAtPath(detached, target_path)
  IN  IF IsSubpath(Append(source_path, source_name), target_path) \/ ~target_parent.ok
      THEN detached
      ELSE StoreAtPath(detached, target_path, DictSet(target_parent.val, source_name, item))

\* A faulty move_item, without the check of the name in the target; used to
\* test that the result of a move within one folder is checked
MoveItemNoConflictCheck(d, source_path, source_name, target_path) ==
  LET source_parent == GetItemAtPath(d, source_path)
      target_parent == GetItemAtPath(d, target_path)
  IN  IF ~source_parent.ok THEN Outcome(d, Ret("False", "source_path_missing"), <<>>)
      ELSE IF ~target_parent.ok THEN Outcome(d, Ret("False", "target_path_missing"), <<>>)
      ELSE IF ~DictHas(source_parent.val, source_name)
      THEN Outcome(d, Ret("False", "item_missing"), <<>>)
      ELSE IF /\ DictGet(source_parent.val, source_name).type = "folder"
              /\ IsSubpath(Append(source_path, source_name), target_path)
      THEN Outcome(d, Ret("False", "cycle"), <<>>)
      ELSE LET new == MovedTree(d, source_path, source_name, target_path)
           IN  Outcome(new, Ret("True", ""), <<new>>)

\* DataManager.move_item
MoveItemCall(d, source_path, source_name, target_path) ==
  LET source_parent == GetItemAtPath(d, source_path)
      target_parent == GetItemAtPath(d, target_path)
  IN  IF ~source_parent.ok THEN Outcome(d, Ret("False", "source_path_missing"), <<>>)
      ELSE IF ~target_parent.ok THEN Outcome(d, Ret("False", "target_path_missing"), <<>>)
      ELSE IF ~DictHas(source_parent.val, source_name)
      THEN Outcome(d, Ret("False", "item_missing"), <<>>)
      ELSE IF DictHas(target_parent.val, source_name)
      THEN Outcome(d, Ret("False", "name_exists"), <<>>)
      ELSE IF /\ DictGet(source_parent.val, source_name).type = "folder"
              /\ IsSubpath(Append(source_path, source_name), target_path)
      THEN Outcome(d, Ret("False", "cycle"), <<>>)
      ELSE LET new == MovedTree(d, source_path, source_name, target_path)
           IN  Outcome(new, Ret("True", ""), <<new>>)

(* --------------------------- JSON documents ---------------------------- *)

\* A JSON value that is not an object (a number, a string, a list), as the
\* value of an entry and in the place of a dict
JsonScalar == [json |-> "scalar"]

NonDict == << JsonScalar >>

\* The JSON object {} as the value of an entry: an object without any key
EmptyObject == [json |-> "object"]

\* isinstance(x, dict), for the value of an entry and for a dict
IsObject(item) == item # JsonScalar

IsDict(x) == x # NonDict

\* The number of nodes of a tree
RECURSIVE CountNodes(_)
CountNodes(d) ==
  IF ~IsDict(d) \/ d = <<>> THEN 0
  ELSE LET item == Head(d).v
       IN  1 + (IF "children" \in DOMAIN item THEN CountNodes(item.children) ELSE 0)
             + CountNodes(Tail(d))

\* A faulty check, which accepts a bookmark without a name; used to test
\* that the fields a url needs are checked
ValidateItemNameOptional(item, children_valid) ==
  IF ~IsObject(item) THEN "not_dict"
  ELSE IF "type" \notin DOMAIN item THEN "no_type"
  ELSE IF item.type = "url"
       THEN IF "url" \notin DOMAIN item THEN "no_url" ELSE ""
  ELSE IF item.type = "folder"
       THEN IF "children" \notin DOMAIN item THEN "no_children"
            ELSE IF ~IsDict(item.children) THEN "children_not_dict"
            ELSE IF ~children_valid THEN "child"
            ELSE ""
  ELSE "bad_type"

\* One entry of the loop of _simple_validate: the checks made on item
ValidateItem(item, children_valid) ==
  IF ~IsObject(item) THEN "not_dict"
  ELSE IF "type" \notin DOMAIN item THEN "no_type"
  ELSE IF item.type = "url"
       THEN IF "url" \notin DOMAIN item THEN "no_url"
            ELSE IF "name" \notin DOMAIN item THEN "no_name"
            ELSE ""
  ELSE IF item.type = "folder"
       THEN IF "children" \notin DOMAIN item THEN "no_children"
            ELSE IF ~IsDict(item.children) THEN "children_not_dict"
            ELSE IF ~children_valid THEN "child"
            ELSE ""
  ELSE "bad_type"

\* json_utils._simple_validate (validate_json_schema always calls it): the
\* result, the keys of the folders down to the first offending entry, and
\* which check it failed
RECURSIVE SimpleValidate(_)
SimpleValidate(d) ==
  IF ~IsDict(d) THEN [valid |-> FALSE, keys |-> <<>>, why |-> "not_dict"]
  ELSE IF d = <<>> THEN [valid |-> TRUE, keys |-> <<>>, why |-> ""]
  ELSE LET key  == Head(d).k
           item == Head(d).v
           sub  == IF /\ {"type", "children"} \subseteq DOMAIN item
                      /\ item.type = "folder"
                      /\ IsDict(item.children)
                   THEN SimpleValidate(item.children)
                   ELSE [valid |-> TRUE, keys |-> <<>>, why |-> ""]
           why  == ValidateItem(item, sub.valid)
       IN  IF why = "child" THEN [valid |-> FALSE, keys |-> <<key>> \o sub.keys, why |-> sub.why]
           ELSE IF why # "" THEN [valid |-> FALSE, keys |-> <<key>>, why |-> why]
           ELSE SimpleValidate(Tail(d))

\* ImportExportService._count_items: item["type"] and item["children"] raise
\* on an entry that lacks them (ok is FALSE then)
RECURSIVE CountItems(_)
CountItems(d) ==
  IF ~IsDict(d) THEN [ok |-> FALSE, n |-> 0]
  ELSE IF d = <<>> THEN [ok |-> TRUE, n |-> 0]
  ELSE LET item == Head(d).v
       IN  IF "type" \notin DOMAIN item THEN [ok |-> FALSE, n |-> 0]
           ELSE LET sub == IF item.type = "folder"
                           THEN IF "children" \in DOMAIN item THEN CountItems(item.children)
                                ELSE [ok |-> FALSE, n |-> 0]
                           ELSE [ok |-> TRUE, n |-> 0]
                    rest == CountItems(Tail(d))
                IN  IF sub.ok /\ rest.ok THEN [ok |-> TRUE, n |-> 1 + sub.n + rest.n]
                    ELSE [ok |-> FALSE, n |-> 0]

\* DataManager.load_default_data: the built-in tree.  The names stand for
\* the keys of the source: TechResources for the first root folder ("技术资源"),
\* Languages ("编程语言"), Toolbox ("工具箱"), SearchEngines ("搜索引擎"),
\* Baidu ("百度"); the name fields are the display names of the source.
DefaultData ==
  << [k |-> "TechResources", v |-> [type |-> "folder", children |->
       << [k |-> "Languages", v |-> [type |-> "folder", children |->
            << [k |-> "Python", v |-> [type |-> "url", url |-> "https://www.python.org",
                                       name |-> "Python site", icon |-> ""]],
               [k |-> "JavaScript", v |-> [type |-> "url",
                    url |-> "https://developer.mozilla.org/zh-CN/docs/Web/JavaScript",
                    name |-> "MDN JavaScript", icon |-> ""]] >>]],
          [k |-> "GitHub", v |-> [type |-> "url", url |-> "https://github.com",
                                  name |-> "GitHub", icon |-> ""]] >>]],
     [k |-> "Toolbox", v |-> [type |-> "folder", children |->
       << [k |-> "SearchEngines", v |-> [type |-> "folder", children |->
            << [k |-> "Google", v |-> [type |-> "url", url |-> "https://www.google.com",
                                       name |-> "Google search", icon |-> ""]],
               [k |-> "Baidu", v |-> [type |-> "url", url |-> "https://www.baidu.com",
                                      name |-> "Baidu search", icon |-> ""]] >>]] >>]] >>

\* The JSON documents a data file or an import file may hold
DocIconless == << [k |-> "A", v |-> [type |-> "url", url |-> "u1", name |-> "A"]] >>

DocNested ==
  << [k |-> "A", v |-> [type |-> "folder", children |->
       << [k |-> "B", v |-> [type |-> "url", url |-> "u1", name |-> "site", icon |-> ""]] >>]] >>

DocBadTail ==
  << [k |-> "A", v |-> [type |-> "url", url |-> "u1", name |-> "A", icon |-> ""]],
     [k |-> "B", v |-> EmptyObject] >>

DocNoType == << [k |-> "A", v |-> EmptyObject] >>

DocFolderNoChildren == << [k |-> "A", v |-> [type |-> "folder"]] >>

\* A bookmark without a name inside a folder
DocNestedBad ==
  << [k |-> "A", v |-> [type |-> "folder", children |->
       << [k |-> "B", v |-> [type |-> "url", url |-> "u1"]] >>]] >>

\* Two entries that are no items: a type that is neither, and a number
DocTwoBad ==
  << [k |-> "A", v |-> [type |-> "link"]], [k |-> "B", v |-> JsonScalar] >>

\* A bookmark with a property the schema does not name
DocExtraKey ==
  << [k |-> "A", v |-> [type |-> "url", url |-> "u1", name |-> "A", icon |-> "",
                        extra |-> "x"]] >>

JsonDocs == {<<>>, DocIconless, DocNested, DocBadTail, DocNoType, DocFolderNoChildren,
             DocNestedBad, DocTwoBad, DocExtraKey, NonDict}

\* A file on disk as load() and import_json see it
JsonFiles ==
  {[kind |-> "missing"], [kind |-> "unreadable"], [kind |-> "not_json"]}
    \cup {[kind |-> "json", doc |-> doc] : doc \in JsonDocs}

\* A faulty load, which leaves an empty tree when the file cannot be taken;
\* used to test that the substitution of the default tree is checked
LoadCallEmptyOnFailure(d, file) ==
  IF file.kind = "json" /\ SimpleValidate(file.doc).valid
  THEN Outcome(file.doc, Ret("None", ""), <<>>)
  ELSE Outcome(<<>>, Ret("None", file.kind), <<>>)

\* DataManager.load: the file's document when it exists, can be read, parses
\* and passes validate_json_schema; load_default_data() otherwise, which emits
\* data_changed
LoadCall(d, file) ==
  IF file.kind = "json" /\ SimpleValidate(file.doc).valid
  THEN Outcome(file.doc, Ret("None", ""), <<>>)
  ELSE Outcome(DefaultData, Ret("None", file.kind), <<DefaultData>>)

\* The while loop that picks the name of the import folder:
\* base_name, then base_name(2), base_name(3), ...
RECURSIVE FreshName(_, _, _, _)
FreshName(d, base_name, folder_name, counter) ==
  IF DictHas(d, folder_name)
  THEN FreshName(d, base_name, base_name \o "(" \o ToString(counter) \o ")", counter + 1)
  ELSE folder_name

\* The value an import returns: the count
RetCount(n, log) == [val |-> "int", n |-> n, log |-> log]

\* any(isinstance(item, dict) and item.get("type") in ["folder", "url"])
ValidStructure(imported_data) ==
  \E i \in 1..Len(imported_data) :
    LET item == imported_data[i].v
    IN  "type" \in DOMAIN item /\ item.type \in {"folder", "url"}

\* ImportExportService.import_json.  "Imported(JSON)" stands for the folder
\* name of the source ("已导入(JSON)").  An exception of _count_items is
\* caught by the except clause, which returns 0 after the merge was made.
ImportJsonCall(d, file) ==
  IF file.kind = "missing" THEN Outcome(d, RetCount(0, "missing"), <<>>)
  ELSE IF file.kind = "unreadable" THEN Outcome(d, RetCount(0, "exception"), <<>>)
  ELSE IF file.kind = "not_json" THEN Outcome(d, RetCount(0, "not_json"), <<>>)
  ELSE IF ~IsDict(file.doc) THEN Outcome(d, RetCount(0, "not_dict"), <<>>)
  ELSE IF ~ValidStructure(file.doc) THEN Outcome(d, RetCount(0, "bad_structure"), <<>>)
  ELSE LET folder_name == FreshName(d, "Imported(JSON)", "Imported(JSON)", 2)
           new   == DictSet(d, folder_name, [type |-> "folder", children |-> file.doc])
           count == CountItems(file.doc)
       IN  IF count.ok THEN Outcome(new, RetCount(count.n, ""), <<new>>)
           ELSE Outcome(new, RetCount(0, "exception"), <<new>>)

(* --------------------------- JSON text --------------------------------- *)

\* A JSON text is the sequence of its tokens: the braces of the objects, the
\* strings (keys and values), and a token for a value that is neither
Tok(t, str) == [t |-> t, s |-> str]

\* The fields of an item, in the order the dicts of the program are built;
\* "extra" is the one property of the documents of the model that the
\* program does not know
FieldOrder == <<"type", "url", "name", "icon", "children", "extra">>

RECURSIVE DumpDict(_)
RECURSIVE DumpEntries(_)
RECURSIVE DumpEntriesReversed(_)
RECURSIVE DumpItem(_)
RECURSIVE DumpFields(_, _)

\* json.dumps of a mapping of names to items: the entries in the order of
\* the dict
DumpDict(d) ==
  IF ~IsDict(d) THEN <<Tok("scalar", "")>>
  ELSE <<Tok("{", "")>> \o DumpEntries(d) \o <<Tok("}", "")>>

\* A faulty encoder, which writes the entries of a mapping last to first;
\* used to test that the order of the children is checked
DumpEntriesReversed(d) ==
  IF d = <<>> THEN <<>>
  ELSE DumpEntriesReversed(Tail(d)) \o <<Tok("str", Head(d).k)>> \o DumpItem(Head(d).v)

DumpEntries(d) ==
  IF d = <<>> THEN <<>>
  ELSE <<Tok("str", Head(d).k)>> \o DumpItem(Head(d).v) \o DumpEntries(Tail(d))

\* json.dumps of an item: its fields, children as a mapping
DumpItem(item) ==
  IF ~IsObject(item) THEN <<Tok("scalar", "")>>
  ELSE IF item = EmptyObject THEN <<Tok("{", ""), Tok("}", "")>>
  ELSE <<Tok("{", "")>> \o DumpFields(item, 1) \o <<Tok("}", "")>>

DumpFields(item, i) ==
  IF i > Len(FieldOrder) THEN <<>>
  ELSE LET f == FieldOrder[i]
       IN  (IF f \notin DOMAIN item THEN <<>>
            ELSE <<Tok("str", f)>> \o
                 (IF f = "children" THEN DumpDict(item.children)
                  ELSE <<Tok("str", item[f])>>))
           \o DumpFields(item, i + 1)

\* json.dumps(data, ensure_ascii=False, indent=2)
JsonDumps(d) == DumpDict(d)

RECURSIVE ParseDict(_)
RECURSIVE ParseEntries(_, _)
RECURSIVE ParseItem(_)
RECURSIVE ParseFields(_, _)

\* json.loads at a mapping of names to items: the value and the tokens left
ParseDict(toks) ==
  IF Head(toks).t = "scalar" THEN [val |-> NonDict, rest |-> Tail(toks)]
  ELSE ParseEntries(Tail(toks), <<>>)

\* A key repeated in the text keeps its first place and its last value
ParseEntries(toks, acc) ==
  IF Head(toks).t = "}" THEN [val |-> acc, rest |-> Tail(toks)]
  ELSE LET item == ParseItem(Tail(toks))
       IN  ParseEntries(item.rest, DictSet(acc, Head(toks).s, item.val))

\* json.loads at an item: the object of its fields
ParseItem(toks) ==
  IF Head(toks).t = "scalar" THEN [val |-> JsonScalar, rest |-> Tail(toks)]
  ELSE LET fields == ParseFields(Tail(toks), <<>>)
           names  == {fields.val[i].f : i \in 1..Len(fields.val)}
           last(f) == CHOOSE i \in 1..Len(fields.val) :
                        /\ fields.val[i].f = f
                        /\ \A j \in (i + 1)..Len(fields.val) : fields.val[j].f # f
       IN  [val  |-> IF names = {} THEN EmptyObject
                     ELSE [f \in names |-> fields.val[last(f)].v],
            rest |-> fields.rest]

ParseFields(toks, acc) ==
  IF Head(toks).t = "}" THEN [val |-> acc, rest |-> Tail(toks)]
  ELSE LET f == Head(toks).s
       IN  IF f = "children"
           THEN LET sub == ParseDict(Tail(toks))
                IN  ParseFields(sub.rest, Append(acc, [f |-> f, v |-> sub.val]))
           ELSE ParseFields(Tail(Tail(toks)), Append(acc, [f |-> f, v |-> toks[2].s]))

\* json.loads(content)
JsonLoads(toks) == ParseDict(toks).val

\* The file a json.dump of the tree leaves, as a later json.load reads it
JsonFileOf(d) == [kind |-> "json", doc |-> JsonLoads(JsonDumps(d))]

\* DataManager.save: nothing is written when the tree fails
\* validate_json_schema or when the file cannot be written; save returns None
SaveCall(d, writable) ==
  IF ~SimpleValidate(d).valid THEN Outcome(d, Ret("None", "invalid"), <<>>)
  ELSE IF ~writable THEN Outcome(d, Ret("None", "write_failed"), <<>>)
  ELSE Outcome(d, Ret("None", ""), <<>>)

\* ImportExportService.export_json: the count of _count_items; 0 when the
\* file could not be opened, and when _count_items raised after the file
\* was written
ExportJsonCall(d, writable) ==
  IF ~writable THEN Outcome(d, RetCount(0, "write_failed"), <<>>)
  ELSE IF ~CountItems(d).ok THEN Outcome(d, RetCount(0, "exception"), <<>>)
  ELSE Outcome(d, RetCount(CountItems(d).n, ""), <<>>)

(* ------------------------- legacy-HTML documents ----------------------- *)

\* An element of the parsed document (a BeautifulSoup Tag): its tag, its
\* stripped text, the HREF and ICON attributes of an anchor, its children
El(tag, text, href, icon, kids) ==
  [tag |-> tag, text |-> text, href |-> href, icon |-> icon, kids |-> kids]

\* The BeautifulSoup object: the root of the parsed document
Document(soup) == El("document", "", "", "", soup)

\* An element is addressed by its position: the child indices from the root
RECURSIVE ElemAt(_, _)
ElemAt(e, pos) == IF pos = <<>> THEN e ELSE ElemAt(e.kids[Head(pos)], Tail(pos))

\* The positions of the descendants of the element at pos, in document order
RECURSIVE DescFrom(_, _, _)
DescFrom(e, pos, i) ==
  IF i > Len(e.kids) THEN <<>>
  ELSE <<Append(pos, i)>> \o DescFrom(e.kids[i], Append(pos, i), 1) \o DescFrom(e, pos, i + 1)

\* tag.find_all(name): every descendant with that tag, in document order
FindAll(soup, pos, tag) ==
  SelectSeq(DescFrom(ElemAt(Document(soup), pos), pos, 1),
            LAMBDA q : ElemAt(Document(soup), q).tag = tag)

\* tag.find(name): the first such descendant, or None
Find(soup, pos, tag) ==
  LET all == FindAll(soup, pos, tag)
  IN  IF all = <<>> THEN [ok |-> FALSE, pos |-> <<>>] ELSE [ok |-> TRUE, pos |-> all[1]]

\* collect_all_items(dl): the dt of every folder-marker and of every link,
\* in the order the lists are appended to.  find_all and find search all
\* descendants, and the recursion into a dt's sub-list visits them again.
RECURSIVE CollectAllItems(_, _)
RECURSIVE CollectFrom(_, _, _)
CollectAllItems(soup, dl) == CollectFrom(soup, FindAll(soup, dl, "dt"), 1)

CollectFrom(soup, items, i) ==
  IF i > Len(items) THEN [folders |-> <<>>, links |-> <<>>]
  ELSE LET dt     == items[i]
           h3     == Find(soup, dt, "h3")
           a      == Find(soup, dt, "a")
           sub_dl == Find(soup, dt, "dl")
           own_folders == IF h3.ok THEN <<dt>> ELSE <<>>
           own_links   == IF a.ok /\ ElemAt(Document(soup), a.pos).href # ""
                          THEN << [dt |-> dt, a |-> a.pos] >> ELSE <<>>
           nested == IF sub_dl.ok THEN CollectAllItems(soup, sub_dl.pos)
                     ELSE [folders |-> <<>>, links |-> <<>>]
           rest   == CollectFrom(soup, items, i + 1)
       IN  [folders |-> own_folders \o nested.folders \o rest.folders,
            links   |-> own_links \o nested.links \o rest.links]

\* The keys of imported_data / folder_map / dt_to_name: a Tag is hashed by
\* its text and compared by its name, attributes and contents, so two dt
\* elements with the same content are one key; the key object is the first
RECURSIVE FolderKeys(_, _, _, _)
FolderKeys(soup, folders, i, keys) ==
  IF i > Len(folders) THEN keys
  ELSE LET e == ElemAt(Document(soup), folders[i])
       IN  FolderKeys(soup, folders, i + 1,
             IF \E j \in 1..Len(keys) : ElemAt(Document(soup), keys[j]) = e
             THEN keys ELSE Append(keys, folders[i]))

\* h3.text.strip() or the name for a folder without one ("未命名文件夹")
FolderName(soup, dt) ==
  LET text == ElemAt(Document(soup), Find(soup, dt, "h3").pos).text
  IN  IF text = "" THEN "UnnamedFolder" ELSE text

\* The walk `parent = dt.parent; while parent: if parent in folder_map`:
\* the index of the key of the nearest ancestor that is a key, 0 for none
RECURSIVE NearestFolder(_, _, _)
NearestFolder(soup, keys, pos) ==
  IF pos = <<>> THEN 0
  ELSE LET parent == SubSeq(pos, 1, Len(pos) - 1)
           e      == ElemAt(Document(soup), parent)
       IN  IF \E j \in 1..Len(keys) : ElemAt(Document(soup), keys[j]) = e
           THEN CHOOSE j \in 1..Len(keys) : ElemAt(Document(soup), keys[j]) = e
           ELSE NearestFolder(soup, keys, parent)

\* A faulty loop, whose first suffix is " (2)"; used to test that the number
\* of the suffix is checked
RECURSIVE UniqueNameFromTwo(_, _, _, _)
UniqueNameFromTwo(container, name, final_name, counter) ==
  IF DictHas(container, final_name)
  THEN UniqueNameFromTwo(container, name,
                         name \o " (" \o ToString(counter + 1) \o ")", counter + 1)
  ELSE final_name

\* The loop `while final_name in container: final_name = f"{name} ({counter})"`
RECURSIVE UniqueName(_, _, _, _)
UniqueName(container, name, final_name, counter) ==
  IF DictHas(container, final_name)
  THEN UniqueName(container, name, name \o " (" \o ToString(counter) \o ")", counter + 1)
  ELSE final_name

\* container[final_name] = item under the first free name
PutUnique(container, name, item) ==
  DictSet(container, UniqueName(container, name, name, 1), item)

\* Step 3 of import_html: each link goes into the container of the nearest
\* folder above its dt; a link with no folder above it is skipped
RECURSIVE PlaceLinks(_, _, _, _, _)
PlaceLinks(soup, keys, links, i, containers) ==
  IF i > Len(links) THEN containers
  ELSE LET a      == ElemAt(Document(soup), links[i].a)
           name   == IF a.text = "" THEN a.href ELSE a.text
           parent == NearestFolder(soup, keys, links[i].dt)
           url_item == [type |-> "url", url |-> a.href, name |-> name, icon |-> a.icon]
       IN  PlaceLinks(soup, keys, links, i + 1,
             IF parent = 0 THEN containers
             ELSE [containers EXCEPT ![parent] = PutUnique(@, name, url_item)])

\* A folder object held in a container before the hierarchy is complete
FolderRef(i) == [type |-> "ref", idx |-> i]

\* Step 4 of import_html: each folder goes into the container of the nearest
\* folder above its dt and leaves root_folders; st is the containers and
\* the set of root folders
RECURSIVE PlaceFolders(_, _, _, _)
PlaceFolders(soup, keys, i, st) ==
  IF i > Len(keys) THEN st
  ELSE LET parent == NearestFolder(soup, keys, keys[i])
       IN  PlaceFolders(soup, keys, i + 1,
             IF parent = 0 THEN st
             ELSE [containers |-> [st.containers EXCEPT ![parent] =
                                     PutUnique(@, FolderName(soup, keys[i]), FolderRef(i))],
                   roots |-> st.roots \ {i}])

\* Step 5 of import_html: the root folders, in the iteration order of the
\* Python set root_folders, under names unique in final_data
RECURSIVE RootFolders(_, _, _, _, _)
RootFolders(soup, keys, order, i, final_data) ==
  IF i > Len(order) THEN final_data
  ELSE RootFolders(soup, keys, order, i + 1,
         PutUnique(final_data, FolderName(soup, keys[order[i]]), FolderRef(order[i])))

\* The folder objects are shared between imported_data and the containers:
\* what a container holds is the folder with everything put into it
RECURSIVE Resolve(_, _)
Resolve(containers, d) ==
  IF d = <<>> THEN <<>>
  ELSE LET v == Head(d).v
       IN  << [k |-> Head(d).k,
               v |-> IF v.type = "ref"
                     THEN [type |-> "folder",
                           children |-> Resolve(containers, containers[v.idx])]
                     ELSE v] >> \o Resolve(containers, Tail(d))

\* Steps 1 to 4 of the flat-then-rebuild stage on the first dl of the document
Rebuilt(soup) ==
  LET dl    == Find(soup, <<>>, "dl").pos
      flat  == CollectAllItems(soup, dl)
      keys  == FolderKeys(soup, flat.folders, 1, <<>>)
      empty == [i \in 1..Len(keys) |-> <<>>]
      withLinks == PlaceLinks(soup, keys, flat.links, 1, empty)
  IN  [keys |-> keys,
       st   |-> PlaceFolders(soup, keys, 1,
                             [containers |-> withLinks, roots |-> 1..Len(keys)])]

\* The orders in which the set root_folders may be iterated
Orders(S) ==
  {o \in [1..Cardinality(S) -> S] : \A i, j \in 1..Cardinality(S) : i # j => o[i] # o[j]}

RootOrders(soup) ==
  IF Find(soup, <<>>, "dl").ok THEN Orders(Rebuilt(soup).st.roots) ELSE {<<>>}

\* final_data of the flat-then-rebuild stage
FinalData(soup, order) ==
  LET r == Rebuilt(soup)
  IN  Resolve(r.st.containers, RootFolders(soup, r.keys, order, 1, <<>>))

\* Both regex fallbacks: one bookmark per match of the anchor pattern, under
\* its text, or its url when the text is empty, made unique in the container
RECURSIVE LinksFolder(_, _, _)
LinksFolder(links, i, container) ==
  IF i > Len(links) THEN container
  ELSE LET name == IF links[i].name = "" THEN links[i].url ELSE links[i].name
       IN  LinksFolder(links, i + 1,
             PutUnique(container, name,
                       [type |-> "url", url |-> links[i].url, name |-> name, icon |-> ""]))

\* The file size limit: MAX_FILE_SIZE_MB megabytes, in bytes
MaxFileSize == 3145728

\* A faulty size check, which also rejects a file of exactly the limit; used
\* to test that the boundary of the size guard is checked
FileTooLargeAtLimit(file) == file.size >= MaxFileSize

\* file_size_mb > MAX_FILE_SIZE_MB, where file_size_mb = file_size / (1024*1024)
FileTooLarge(file) == file.size > MaxFileSize

\* The line loop of _import_html_chunked and _process_buffer.  The text of
\* a file is read as the buffers the loop flushes, each a sequence of the
\* matches the three patterns find in it: a folder-open marker
\* (<H3>name</H3>), a link (<A HREF="url">name</A>) or a folder-close marker
\* (</DL>).
MarkerToken(name) == [tag |-> "h3", name |-> name, url |-> ""]

LinkToken(url, name) == [tag |-> "a", name |-> name, url |-> url]

CloseToken == [tag |-> "/dl", name |-> "", url |-> ""]

\* The state the loop keeps: `outer` is folder_stack[0], the dict that holds
\* the folder "ImportedBookmarks" ("导入的书签"); folder_stack holds, for each
\* dict on the stack, the path that leads to it from `outer`; current_path is
\* the list of names.  folder_stack and current_path are lists, which
\* _process_buffer changes in place.
MachineInit ==
  [outer |-> << [k |-> "ImportedBookmarks", v |-> [type |-> "folder", children |-> <<>>]] >>,
   folder_stack |-> << <<>> >>,
   current_path |-> <<"ImportedBookmarks">>]

\* The caller's current_folder, which no call of _process_buffer changes: the
\* children of "ImportedBookmarks"
CallerFolder == <<"ImportedBookmarks">>

\* 1. the folder-open markers of the buffer, from the token i on;
\* current_folder is the local variable of this call, m.placed its
\* bookmark_count
RECURSIVE BufferMarkers(_, _, _, _)
BufferMarkers(m, buffer, i, current_folder) ==
  IF i > Len(buffer) THEN [m |-> m, current_folder |-> current_folder]
  ELSE IF buffer[i].tag # "h3" THEN BufferMarkers(m, buffer, i + 1, current_folder)
  ELSE LET container == GetItemAtPath(m.outer, current_folder).val
           folder_name == IF buffer[i].name = "" THEN "UnnamedFolder_" \o ToString(Len(m.folder_stack))
                          ELSE buffer[i].name
           final_name == UniqueName(container, folder_name, folder_name, 1)
           new_path == Append(current_folder, final_name)
       IN  BufferMarkers(
             [m EXCEPT !.outer = StoreAtPath(@, current_folder,
                                   DictSet(container, final_name,
                                           [type |-> "folder", children |-> <<>>])),
                       !.folder_stack = Append(@, new_path),
                       !.current_path = Append(@, final_name)],
             buffer, i + 1, new_path)

\* 2. the links of the buffer
RECURSIVE BufferLinks(_, _, _, _)
BufferLinks(m, buffer, i, current_folder) ==
  IF i > Len(buffer) THEN m
  ELSE IF buffer[i].tag # "a" THEN BufferLinks(m, buffer, i + 1, current_folder)
  ELSE LET container == GetItemAtPath(m.outer, current_folder).val
           name == IF buffer[i].name = "" THEN buffer[i].url ELSE buffer[i].name
       IN  BufferLinks(
             [m EXCEPT !.outer = StoreAtPath(@, current_folder,
                                   PutUnique(container, name,
                                             [type |-> "url", url |-> buffer[i].url,
                                              name |-> name, icon |-> ""]))],
             buffer, i + 1, current_folder)

\* 3. the folder-close markers of the buffer
RECURSIVE BufferCloses(_, _, _)
BufferCloses(m, buffer, i) ==
  IF i > Len(buffer) THEN m
  ELSE IF buffer[i].tag # "/dl" \/ Len(m.folder_stack) <= 1
  THEN BufferCloses(m, buffer, i + 1)
  ELSE BufferCloses(
         [m EXCEPT !.folder_stack = SubSeq(@, 1, Len(@) - 1),
                   !.current_path = IF @ # <<>> THEN SubSeq(@, 1, Len(@) - 1) ELSE @],
         buffer, i + 1)

\* _process_buffer(buffer, folder_stack, current_folder, current_path,
\* bookmark_count): what it leaves in the two lists and in the dicts they
\* refer to.  Its current_folder and bookmark_count are its own.
ProcessBuffer(m, buffer) ==
  LET marked == BufferMarkers(m, buffer, 1, CallerFolder)
  IN  BufferCloses(BufferLinks(marked.m, buffer, 1, marked.current_folder), buffer, 1)

\* The loop over the buffers of a file
RECURSIVE LineLoop(_, _, _)
LineLoop(m, flushes, i) ==
  IF i > Len(flushes) THEN m
  ELSE LineLoop(ProcessBuffer(m, flushes[i]), flushes, i + 1)

\* ImportExportService._import_html_chunked.  _process_buffer receives
\* bookmark_count, an int, by value and imported_data not at all: after the
\* line loop bookmark_count is 0 and imported_data is {}, so the regex
\* fallback decides the result.  "ImportedLinks" stands for "导入的链接".
\* data.update(imported_data) sets the key in the root mapping.
ImportHtmlChunkedCall(d, file) ==
  IF FileTooLarge(file) THEN Outcome(d, RetCount(0, "too_large"), <<>>)
  ELSE IF ~(file.head_dl \/ file.head_dt \/ file.head_a)
  THEN Outcome(d, RetCount(0, "not_bookmarks"), <<>>)
  ELSE LET folder_stack == LineLoop(MachineInit, file.flushes, 1)
           bookmark_count == 0
           imported_data == <<>>
       IN  IF bookmark_count # 0
           THEN Outcome(d \o imported_data, RetCount(bookmark_count, ""), <<d>>)
           ELSE IF file.links = <<>> THEN Outcome(d, RetCount(0, "no_links"), <<>>)
           ELSE LET imported == [type |-> "folder",
                                 children |-> LinksFolder(file.links, 1, <<>>)]
                    new == DictSet(d, "ImportedLinks", imported)
                IN  Outcome(new, RetCount(Len(file.links), ""), <<new>>)

\* A file as import_html sees it: whether it exists and can be read, its
\* size in bytes, what the text searches of the content find (valid is the
\* result of _is_valid_html_structure, dl_text the search for "<DL>" or
\* "<DL ", head_* the searches of _import_html_chunked in the first 20 KB),
\* the matches of the anchor regex, the document the parser builds, and the
\* buffers the line loop of the chunked import flushes (one buffer with the
\* links, unless the file is given others)
HtmlFile(size, valid, dl_text, head_dt, head_a, links, soup) ==
  [exists |-> TRUE, readable |-> TRUE, size |-> size, valid |-> valid,
   dl_text |-> dl_text, head_dl |-> dl_text, head_dt |-> head_dt, head_a |-> head_a,
   links |-> links, soup |-> soup,
   flushes |-> << [i \in 1..Len(links) |-> LinkToken(links[i].url, links[i].name)] >>]

Anchor(url, name) == El("a", name, url, "", <<>>)

LinkX == [url |-> "u1", name |-> "x"]

\* <DL><DT><H3>F</H3><DL><DT><A HREF="u1">x</A></DT></DL></DT></DL>
FileFolderLink ==
  HtmlFile(100, TRUE, TRUE, TRUE, TRUE, <<LinkX>>,
    << El("dl", "", "", "", << El("dt", "", "", "",
         << El("h3", "F", "", "", <<>>),
            El("dl", "", "", "", << El("dt", "", "", "", <<Anchor("u1", "x")>>) >>) >>) >>) >>)

\* <DL><DT><A HREF="u1">x</A></DT></DL>: a link in the root list, no folder
FileRootLink ==
  HtmlFile(100, TRUE, TRUE, TRUE, TRUE, <<LinkX>>,
    << El("dl", "", "", "", << El("dt", "", "", "", <<Anchor("u1", "x")>>) >>) >>)

\* <DL><DT><H3>F</H3></DT><DT><H3>G</H3></DT></DL><A NAME="top">: two root folders
FileTwoFolders ==
  HtmlFile(100, TRUE, TRUE, TRUE, FALSE, <<>>,
    << El("dl", "", "", "", << El("dt", "", "", "", <<El("h3", "F", "", "", <<>>)>>),
                               El("dt", "", "", "", <<El("h3", "G", "", "", <<>>)>>) >>),
       El("a", "", "", "", <<>>) >>)

\* <!-- <DL> --><A HREF="u1">x</A>: the text has a list marker, the document no list
FileCommentedList ==
  HtmlFile(100, TRUE, TRUE, FALSE, TRUE, <<LinkX>>, <<Anchor("u1", "x")>>)

\* <!-- <DL> --><A NAME="top">: no list in the document and no link in the text
FileNoLinks ==
  HtmlFile(100, TRUE, TRUE, FALSE, FALSE, <<>>, <<El("a", "", "", "", <<>>)>>)

\* <A HREF="u1">x</A><A HREF="u2">x</A>: flat anchors, no list marker
FileFlatAnchors ==
  HtmlFile(100, TRUE, FALSE, FALSE, TRUE, <<LinkX, [url |-> "u2", name |-> "x"]>>,
           <<Anchor("u1", "x"), Anchor("u2", "x")>>)

\* <A HREF="u1">x</A>: one flat anchor, no list marker
FileOneAnchor ==
  HtmlFile(100, TRUE, FALSE, FALSE, TRUE, <<LinkX>>, <<Anchor("u1", "x")>>)

\* <DL><DT><H3>F</H3><DL><DT><A HREF="u1">Home</A></DT></DL></DT>
\*     <DT><H3>G</H3><DL><DT><A HREF="u2">Home</A></DT></DL></DT></DL>:
\* two folders, each with one link named Home
FileTwoHome ==
  HtmlFile(100, TRUE, TRUE, TRUE, TRUE,
    << [url |-> "u1", name |-> "Home"], [url |-> "u2", name |-> "Home"] >>,
    << El("dl", "", "", "",
         << El("dt", "", "", "",
              << El("h3", "F", "", "", <<>>),
                 El("dl", "", "", "", << El("dt", "", "", "", <<Anchor("u1", "Home")>>) >>) >>),
            El("dt", "", "", "",
              << El("h3", "G", "", "", <<>>),
                 El("dl", "", "", "", << El("dt", "", "", "", <<Anchor("u2", "Home")>>) >>) >>)
         >>) >>)

\* <A NAME="top">top</A>: an anchor, nothing of a bookmark file
FileNoMarkers ==
  HtmlFile(100, TRUE, FALSE, FALSE, FALSE, <<>>, <<El("a", "top", "", "", <<>>)>>)

\* <DT><A HREF='u1'>x</A>: the anchor pattern needs double quotes
FileSingleQuotes ==
  HtmlFile(100, TRUE, FALSE, TRUE, TRUE, <<>>,
           <<El("dt", "", "", "", <<Anchor("u1", "x")>>)>>)

\* <A HREF='u1'>x</A>: one flat anchor, no list marker, the url in single quotes
FileOneAnchorSingleQuotes ==
  HtmlFile(100, TRUE, FALSE, FALSE, TRUE, <<>>, <<Anchor("u1", "x")>>)

\* <H1>Bookmarks</H1>: no anchor at all
FileNoAnchor == HtmlFile(100, FALSE, FALSE, FALSE, FALSE, <<>>, <<>>)

\* A file without "<DL": a folder-open marker on one line and a link on the
\* next, which the loop flushes one after the other
FileMarkerThenLink ==
  [HtmlFile(100, TRUE, FALSE, TRUE, TRUE, <<LinkX>>,
            <<El("h3", "F", "", "", <<>>), Anchor("u1", "x")>>)
   EXCEPT !.flushes = << <<MarkerToken("F")>>, <<LinkToken("u1", "x")>> >>]

HtmlFiles ==
  { [FileRootLink EXCEPT !.exists = FALSE],
    [FileRootLink EXCEPT !.readable = FALSE],
    [FileRootLink EXCEPT !.size = MaxFileSize + 1],
    [FileRootLink EXCEPT !.size = MaxFileSize + 1, !.readable = FALSE],
    [FileRootLink EXCEPT !.size = 0, !.readable = FALSE],
    [FileRootLink EXCEPT !.size = MaxFileSize],
    [FileNoAnchor EXCEPT !.size = 0],
    FileNoAnchor, FileFolderLink, FileRootLink, FileTwoFolders, FileCommentedList,
    FileNoLinks, FileFlatAnchors, FileOneAnchor, FileTwoHome, FileNoMarkers,
    FileSingleQuotes, FileOneAnchorSingleQuotes, FileMarkerThenLink }

\* ImportExportService.import_html.  "Imported(HTML)" stands for the folder
\* name of the source ("已导入(HTML)"), "UncategorizedLinks" for "未分类导入链接".
ImportHtmlCall(d, file, order) ==
  IF ~file.exists THEN Outcome(d, RetCount(0, "missing"), <<>>)
  ELSE IF FileTooLarge(file) THEN Outcome(d, RetCount(0, "too_large"), <<>>)
  ELSE IF file.size = 0 THEN Outcome(d, RetCount(0, "empty"), <<>>)
  ELSE IF ~file.readable THEN Outcome(d, RetCount(0, "unreadable"), <<>>)
  ELSE IF ~file.valid THEN Outcome(d, RetCount(0, "invalid_structure"), <<>>)
  ELSE IF ~file.dl_text THEN ImportHtmlChunkedCall(d, file)
  ELSE LET folder_name == FreshName(d, "Imported(HTML)", "Imported(HTML)", 2)
       IN  IF ~Find(file.soup, <<>>, "dl").ok
           THEN IF file.links = <<>> THEN Outcome(d, RetCount(0, "no_structure"), <<>>)
                ELSE LET imported_data ==
                           << [k |-> "UncategorizedLinks",
                               v |-> [type |-> "folder",
                                      children |-> LinksFolder(file.links, 1, <<>>)]] >>
                         new == DictSet(d, folder_name,
                                        [type |-> "folder", children |-> imported_data])
                     IN  Outcome(new, RetCount(Len(file.links), ""), <<new>>)
           ELSE LET final_data == FinalData(file.soup, order)
                    new == DictSet(d, folder_name,
                                   [type |-> "folder", children |-> final_data])
                IN  Outcome(new, RetCount(CountItems(final_data).n, ""), <<new>>)

(* ------------------------------ HTML export ---------------------------- *)

\* _generate_folder_html reads item["type"] of every entry, item["children"]
\* of a folder and item["url"], item["name"] of every other entry; an entry
\* without them raises, which export_html catches
RECURSIVE ExportOk(_)
ExportOk(d) ==
  /\ IsDict(d)
  /\ \A i \in 1..Len(d) :
       LET item == d[i].v
       IN  /\ IsObject(item)
           /\ "type" \in DOMAIN item
           /\ IF item.type = "folder"
              THEN "children" \in DOMAIN item /\ ExportOk(item.children)
              ELSE {"url", "name"} \subseteq DOMAIN item

\* The bytes of the header <!DOCTYPE ...<DL><p> and of the closing </DL><p>
HeaderSize == 271

\* The environments import_html parses a file in: without lxml the text goes
\* to BeautifulSoup's html.parser as it is; with lxml the Cleaner rewrites it
\* first, closing every element and dropping the attributes it does not know
Parsers == {"html.parser", "lxml"}

\* <DT><A HREF="{url}"[ ICON="{icon}"]>{name}</A> as the parser reads it: the
\* text is the name field, not the key.  The strings of the model hold none
\* of the characters _escape_html replaces, nor surrounding blanks.
UrlAnchor(item, parser) ==
  El("a", item.name, item.url,
     IF parser = "html.parser" /\ "icon" \in DOMAIN item THEN item.icon ELSE "",
     <<>>)

\* The elements html.parser builds from the lines of _generate_folder_html.
\* No <DT> and no <p> is closed in the text, and html.parser closes none
\* for a following start tag: each entry lies inside the dt of the entry
\* written before it, until the </DL> of their list closes them all.  The
\* <p> elements and the text nodes, which no step of the import looks at,
\* are left out.
RECURSIVE NestedLevel(_)
NestedLevel(items) ==
  IF items = <<>> THEN <<>>
  ELSE LET item == Head(items).v
           rest == NestedLevel(Tail(items))
       IN  IF item.type = "folder"
           THEN << El("dt", "", "", "",
                      << El("h3", Head(items).k, "", "", <<>>),
                         El("dl", "", "", "", NestedLevel(item.children)) >> \o rest) >>
           ELSE << El("dt", "", "", "", <<UrlAnchor(item, "html.parser")>> \o rest) >>

\* The elements read from the text the lxml Cleaner returns, in which a <DT>
\* has closed the entry before it
RECURSIVE ClosedLevel(_)
ClosedLevel(items) ==
  IF items = <<>> THEN <<>>
  ELSE LET item == Head(items).v
       IN  << IF item.type = "folder"
              THEN El("dt", "", "", "",
                      << El("h3", Head(items).k, "", "", <<>>),
                         El("dl", "", "", "", ClosedLevel(item.children)) >>)
              ELSE El("dt", "", "", "", <<UrlAnchor(item, "lxml")>>) >>
           \o ClosedLevel(Tail(items))

\* The document parsed from the text of _generate_bookmark_html
ExportedSoup(d, parser) ==
  << El("h1", "Bookmarks", "", "", <<>>),
     El("dl", "", "", "",
        IF parser = "html.parser" THEN NestedLevel(d) ELSE ClosedLevel(d)) >>

\* The anchors of the text, in the order _generate_folder_html writes them
RECURSIVE ExportedLinks(_)
ExportedLinks(d) ==
  IF d = <<>> THEN <<>>
  ELSE LET item == Head(d).v
       IN  (IF item.type = "folder" THEN ExportedLinks(item.children)
            ELSE << [url |-> item.url, name |-> item.name] >>)
           \o ExportedLinks(Tail(d))

\* No file: what import_html finds when export_html wrote nothing
NoFile ==
  [HtmlFile(0, FALSE, FALSE, FALSE, FALSE, <<>>, <<>>) EXCEPT !.exists = FALSE,
                                                           !.readable = FALSE]

\* The file export_html writes, as import_html sees it: the text has "<DL>"
\* in its header, and "<a " where a bookmark was written; the size is at
\* least that of the header and a byte for each entry
ExportedFile(d, parser) ==
  IF ~ExportOk(d) THEN NoFile
  ELSE HtmlFile(HeaderSize + CountNodes(d), ExportedLinks(d) # <<>>, TRUE,
                d # <<>>, ExportedLinks(d) # <<>>, ExportedLinks(d),
                ExportedSoup(d, parser))

\* ImportExportService.export_html: the count of _count_items, or 0 when
\* generating the text raised; the tree is left as it is
ExportHtmlCall(d) ==
  IF ExportOk(d) THEN Outcome(d, RetCount(CountItems(d).n, ""), <<>>)
  ELSE Outcome(d, RetCount(0, "exception"), <<>>)

(* ------------------------- subtree export ------------------------------ *)

\* export_specific_folder_html(file_path, folder_path) and
\* export_specific_folder_json(file_path, folder_path): the folder is looked
\* up with get_folder_data and exported under its own name; `written` tells
\* whether the file was written
Exported(d, n, log, written) ==
  [data |-> d, ret |-> RetCount(n, log), emits |-> <<>>, written |-> written]

ExportSpecificFolderHtmlCall(d, folder_path, writable) ==
  LET folder_data == GetFolderData(d, folder_path)
  IN  IF ~folder_data.ok THEN Exported(d, 0, "no_folder", FALSE)
      ELSE LET export_data ==
                 << [k |-> folder_path[Len(folder_path)], v |-> folder_data.val] >>
           IN  IF ~ExportOk(export_data) THEN Exported(d, 0, "exception", FALSE)
               ELSE IF ~writable THEN Exported(d, 0, "exception", FALSE)
               ELSE Exported(d, CountItems(export_data).n, "", TRUE)

ExportSpecificFolderJsonCall(d, folder_path, writable) ==
  LET folder_data == GetFolderData(d, folder_path)
  IN  IF ~folder_data.ok THEN Exported(d, 0, "no_folder", FALSE)
      ELSE LET export_data ==
                 << [k |-> folder_path[Len(folder_path)], v |-> folder_data.val] >>
           IN  IF ~writable THEN Exported(d, 0, "exception", FALSE)
               ELSE IF ~CountItems(export_data).ok
               THEN Exported(d, 0, "exception", TRUE)
               ELSE Exported(d, CountItems(export_data).n, "", TRUE)

(* ---------------------------- progress events -------------------------- *)

\* The percentages of the import_progress / export_progress events one
\* operation emits, in the order of emission

\* The files the chunked import reads have this many lines
LineCounts == {1, 2500, 120000}

Min(a, b) == IF a <= b THEN a ELSE b

\* The loop over the lines: every 1000 lines,
\* 10 + min(70, int(70 * (line_num / 100000)))
LineProgress(lines) ==
  [k \in 1..(lines \div 1000) |-> 10 + Min(70, (70 * (k * 1000)) \div 100000)]

\* A faulty start of the chunked import, which reports 0 again
ImportHtmlChunkedProgressRestarting(file, lines) ==
  <<0, 10>> \o LineProgress(lines) \o <<80, 100>>

ImportHtmlChunkedProgress(file, lines) ==
  IF FileTooLarge(file) THEN <<100>>
  ELSE IF ~(file.head_dl \/ file.head_dt \/ file.head_a) THEN <<100>>
  ELSE <<10>> \o LineProgress(lines) \o <<80, 100>>

\* import_html hands the file to the chunked import
HandedOver(file) ==
  /\ file.exists
  /\ ~FileTooLarge(file)
  /\ file.size # 0
  /\ file.readable
  /\ file.valid
  /\ ~file.dl_text

ImportHtmlProgress(file, lines) ==
  IF ~file.exists THEN <<100>>
  ELSE IF FileTooLarge(file) THEN <<0, 100>>
  ELSE IF file.size = 0 THEN <<0, 100>>
  ELSE IF ~file.readable THEN <<0, 100>>
  ELSE IF ~file.valid THEN <<0, 5, 100>>
  ELSE IF ~file.dl_text THEN <<0, 5>> \o ImportHtmlChunkedProgress(file, lines)
  ELSE <<0, 5, 10, 100>>

ImportJsonProgress(file) ==
  IF file.kind = "missing" THEN <<100>>
  ELSE IF file.kind = "unreadable" THEN <<0, 100>>
  ELSE IF file.kind = "not_json" THEN <<0, 100>>
  ELSE IF ~IsDict(file.doc) THEN <<0, 20, 100>>
  ELSE IF ~ValidStructure(file.doc) THEN <<0, 20, 100>>
  ELSE <<0, 20, 50, 100>>

\* export_html and export_specific_folder_html: an exception while the HTML
\* is generated comes before the 50
ExportHtmlProgress(d) ==
  IF ExportOk(d) THEN <<0, 50, 100>> ELSE <<0, 100>>

ExportJsonProgress == <<0, 50, 100>>

ExportSpecificFolderProgress(d, folder_path, html) ==
  LET folder_data == GetFolderData(d, folder_path)
  IN  IF ~folder_data.ok THEN <<0, 100>>
      ELSE IF html
      THEN ExportHtmlProgress(<< [k |-> folder_path[Len(folder_path)],
                                  v |-> folder_data.val] >>)
      ELSE ExportJsonProgress

\* The events of the call c made on the tree d; the calls of the tree store
\* emit none
ProgressOf(c, d) ==
  CASE c.op = "import_json" -> ImportJsonProgress(c.file)
    [] c.op = "import_html" -> ImportHtmlProgress(c.file, c.lines)
    [] c.op = "export_html" -> ExportHtmlProgress(d)
    [] c.op = "export_json" -> ExportJsonProgress
    [] c.op = "export_specific_folder_html" ->
         ExportSpecificFolderProgress(d, c.folder_path, TRUE)
    [] c.op = "export_specific_folder_json" ->
         ExportSpecificFolderProgress(d, c.folder_path, FALSE)
    [] OTHER -> <<>>

(* -------------------------------- search ------------------------------ *)

\* str.lower(), letter by letter
LowerChar(c) ==
  CASE c = "A" -> "a" [] c = "B" -> "b" [] c = "C" -> "c" [] c = "D" -> "d"
    [] c = "E" -> "e" [] c = "F" -> "f" [] c = "G" -> "g" [] c = "H" -> "h"
    [] c = "I" -> "i" [] c = "J" -> "j" [] c = "K" -> "k" [] c = "L" -> "l"
    [] c = "M" -> "m" [] c = "N" -> "n" [] c = "O" -> "o" [] c = "P" -> "p"
    [] c = "Q" -> "q" [] c = "R" -> "r" [] c = "S" -> "s" [] c = "T" -> "t"
    [] c = "U" -> "u" [] c = "V" -> "v" [] c = "W" -> "w" [] c = "X" -> "x"
    [] c = "Y" -> "y" [] c = "Z" -> "z" [] OTHER -> c

RECURSIVE Lower(_)
Lower(str) ==
  IF str = "" THEN ""
  ELSE LowerChar(SubSeq(str, 1, 1)) \o Lower(SubSeq(str, 2, Len(str)))

\* `query in text`
In(query, text) ==
  \E i \in 0..Len(text) :
    i + Len(query) <= Len(text) /\ SubSeq(text, i + 1, i + Len(query)) = query

\* DataManager.search(query): search_in(items, path) from the entry i on,
\* with the results collected so far; `query` is query.lower().  An entry
\* that is no dict raises, and search returns what it had collected.
Found(results, raised) == [results |-> results, raised |-> raised]

RECURSIVE SearchIn(_, _, _, _, _)
SearchIn(items, i, path, query, results) ==
  IF i > Len(items) THEN Found(results, FALSE)
  ELSE LET name == items[i].k
           item == items[i].v
           current_path == Append(path, name)
           hit == [path |-> current_path, item |-> item, name |-> name]
       IN  IF ~IsObject(item) THEN Found(results, TRUE)
           ELSE LET item_type == IF "type" \in DOMAIN item THEN item.type ELSE "unknown"
                    by_name == IF In(query, Lower(name))
                               THEN Append(results, hit) ELSE results
                    by_url ==
                      IF /\ item_type = "url"
                         /\ "url" \in DOMAIN item
                         /\ In(query, Lower(item.url))
                         /\ ~\E r \in 1..Len(by_name) : by_name[r].path = current_path
                      THEN Append(by_name, hit) ELSE by_name
                    below ==
                      IF item_type = "folder" /\ "children" \in DOMAIN item
                      THEN SearchIn(item.children, 1, current_path, query, by_url)
                      ELSE Found(by_url, FALSE)
                IN  IF below.raised THEN below
                    ELSE SearchIn(items, i + 1, path, query, below.results)

RetList(results, log) == [val |-> "list", n |-> Len(results), log |-> log, results |-> results]

DataManagerSearchCall(d, query) ==
  LET found == SearchIn(d, 1, <<>>, Lower(query), <<>>)
  IN  Outcome(d, RetList(found.results, IF found.raised THEN "exception" ELSE ""), <<>>)

\* Bookmark.from_dict(item), with the attributes the search reads and
\* to_dict() gives back
BookmarkFromDict(item) ==
  [name |-> IF "name" \in DOMAIN item THEN item.name ELSE "",
   url |-> IF "url" \in DOMAIN item THEN item.url ELSE "",
   icon |-> IF "icon" \in DOMAIN item THEN item.icon ELSE "",
   description |-> "",
   tags |-> <<>>]

BookmarkToDict(bookmark) ==
  [type |-> "url", name |-> bookmark.name, url |-> bookmark.url,
   icon |-> bookmark.icon, tags |-> bookmark.tags,
   description |-> bookmark.description, created |-> "now", modified |-> "now",
   visits |-> 0, last_visit |-> "None"]

\* SearchService._get_all_bookmarks: traverse_folder(folder, path) from the
\* entry i on; an entry without a type, or one that is no bookmark and has no
\* children, raises
RECURSIVE TraverseFolder(_, _, _, _)
TraverseFolder(folder, i, path, bookmarks) ==
  IF i > Len(folder) THEN Found(bookmarks, FALSE)
  ELSE LET name == folder[i].k
           item == folder[i].v
           current_path == Append(path, name)
       IN  IF ~IsObject(item) \/ "type" \notin DOMAIN item THEN Found(bookmarks, TRUE)
           ELSE IF item.type = "url"
           THEN TraverseFolder(folder, i + 1, path,
                  Append(bookmarks, [path |-> current_path,
                                     bookmark |-> BookmarkFromDict(item)]))
           ELSE IF "children" \notin DOMAIN item \/ ~IsDict(item.children)
           THEN Found(bookmarks, TRUE)
           ELSE LET below == TraverseFolder(item.children, 1, current_path, bookmarks)
                IN  IF below.raised THEN below
                    ELSE TraverseFolder(folder, i + 1, path, below.results)

\* The options of SearchService.search: the defaults, names only, and names
\* only with the case regarded
DefaultOptions ==
  [case_sensitive |-> FALSE, search_urls |-> TRUE, search_names |-> TRUE,
   search_descriptions |-> TRUE, search_tags |-> TRUE, max_results |-> 100]

NamesOnly ==
  [DefaultOptions EXCEPT !.search_urls = FALSE, !.search_descriptions = FALSE,
                         !.search_tags = FALSE]

SearchOptions == {DefaultOptions, NamesOnly, [NamesOnly EXCEPT !.case_sensitive = TRUE]}

\* SearchService._bookmark_matches; the query is already in lower case when
\* the case is not regarded
BookmarkMatches(bookmark, query, options) ==
  LET cased(text) == IF options.case_sensitive THEN text ELSE Lower(text)
  IN  \/ options.search_names /\ In(query, cased(bookmark.name))
      \/ options.search_urls /\ In(query, cased(bookmark.url))
      \/ /\ options.search_descriptions
         /\ bookmark.description # ""
         /\ In(query, cased(bookmark.description))
      \/ /\ options.search_tags
         /\ \E t \in 1..Len(bookmark.tags) : In(query, cased(bookmark.tags[t]))

\* SearchService._perform_search: the loop over all_bookmarks from i on
RECURSIVE PerformSearch(_, _, _, _, _)
PerformSearch(all_bookmarks, i, query, options, results) ==
  IF i > Len(all_bookmarks) THEN results
  ELSE IF BookmarkMatches(all_bookmarks[i].bookmark, query, options)
  THEN LET more == Append(results,
                     [path |-> all_bookmarks[i].path,
                      item |-> BookmarkToDict(all_bookmarks[i].bookmark),
                      name |-> all_bookmarks[i].bookmark.name])
       IN  IF options.max_results > 0 /\ Len(more) >= options.max_results THEN more
           ELSE PerformSearch(all_bookmarks, i + 1, query, options, more)
  ELSE PerformSearch(all_bookmarks, i + 1, query, options, results)

\* SearchService.search(query, search_options)
SearchServiceSearchCall(d, query, options) ==
  IF query = "" THEN Outcome(d, RetList(<<>>, "empty_query"), <<>>)
  ELSE LET all_bookmarks == TraverseFolder(d, 1, <<>>, <<>>)
           q == IF options.case_sensitive THEN query ELSE Lower(query)
       IN  IF all_bookmarks.raised THEN Outcome(d, RetList(<<>>, "exception"), <<>>)
           ELSE Outcome(d, RetList(PerformSearch(all_bookmarks.results, 1, q, options, <<>>),
                                   ""), <<>>)

\* The queries of the searches
Queries == {"", "a", "site", "u1"}

(* ------------------------------- state --------------------------------- *)

VARIABLES
  data,   \* DataManager.data, the root mapping
  prev,   \* the tree when the last call began
  call,   \* the last call and its arguments
  ret,    \* what the last call returned (or the exception it raised)
  notes,  \* the tree as each data_changed.emit() of the last call showed it
  progress \* the percentages of the progress events of the last call

\* The Folder / Bookmark objects of models/folder.py and models/bookmark.py,
\* which the tree store does not use
VARIABLES
  root,   \* a Folder object and the objects below it
  now,    \* the clock datetime.now() reads
  mcall,  \* the last call of a method of a Folder or Bookmark
  mprev   \* the objects when that call began

\* The lock-guarded DataManager of main.py and the threads that call it
VARIABLES
  data_lock,  \* whether self.data_lock, a threading.Lock, is held
  guarded,    \* self.data of that DataManager
  threads     \* for each thread, the calls it is in, innermost last, and
              \* what its last call returned

store_vars == <<data, prev, call, ret, notes, progress>>

lock_vars == <<data_lock, guarded, threads>>

model_vars == <<root, now, mcall, mprev>>

vars == <<data, prev, call, ret, notes, progress, root, now, mcall, mprev,
         data_lock, guarded, threads>>

\* No call is in progress and none has a result the caller has not taken
Idle == [op |-> "idle"]

\* Folder.__init__: created and modified are datetime.now(), children is {}
NewFolder(name, time) ==
  [kind |-> "folder", name |-> name, description |-> "", modified |-> time,
   children |-> <<>>]

\* Bookmark.__init__
NewBookmark(name, url, time) ==
  [kind |-> "url", name |-> name, url |-> url, description |-> "",
   modified |-> time]

\* The threads that call the lock-guarded DataManager
Threads == {"t1", "t2"}

\* DataManager.__init__: self.data = {}; a Folder made at time 0; and the
\* DataManager of main.py, its lock free and no thread in a call
Init ==
  /\ data = <<>>
  /\ prev = <<>>
  /\ call = Idle
  /\ ret = Ret("None", "")
  /\ notes = <<>>
  /\ progress = <<>>
  /\ root = NewFolder("root", 0)
  /\ now = 0
  /\ mcall = Idle
  /\ mprev = NewFolder("root", 0)
  /\ data_lock = FALSE
  /\ guarded = <<>>
  /\ threads = [t \in Threads |-> [stack |-> <<>>, returned |-> "nothing"]]

\* One call: the outcome becomes the state.  A call is made when the caller
\* has taken the result of the one before.
Step(c, out) ==
  /\ data' = out.data
  /\ prev' = data
  /\ call' = c
  /\ ret' = out.ret
  /\ notes' = out.emits
  /\ progress' = ProgressOf(c, data)
  /\ UNCHANGED model_vars
  /\ UNCHANGED lock_vars

\* The tree is within the bound
WithinBound == CountNodes(data) <= MaxNodes

\* A tree store operation is explored on the trees within the bound, when
\* its result is within the bound
Finish(c, out) ==
  /\ CountNodes(out.data) <= MaxNodes
  /\ Step(c, out)

AddFolder ==
  /\ call = Idle
  /\ WithinBound
  /\ \E path \in ParentPaths, name \in Names :
       Finish([op |-> "add_folder", path |-> path, name |-> name],
           AddFolderCall(data, path, name))

AddUrl ==
  /\ call = Idle
  /\ WithinBound
  /\ \E path \in ParentPaths, name \in Names, arg \in UrlArgs :
       Finish([op |-> "add_url", path |-> path, name |-> name,
               url |-> arg.url, icon |-> arg.icon],
              AddUrlCall(data, path, name, arg.url, arg.icon))

\* The item_data dicts the callers pass: neither field, the url, the icon
ItemDatas ==
  { {}, {<<"url", "u2">>}, {<<"icon", "resources/icons/star.png">>} }

UpdateItem ==
  /\ call = Idle
  /\ WithinBound
  /\ \E path \in ParentPaths, old_name \in Names, new_name \in Names, item_data \in ItemDatas :
       Finish([op |-> "update_item", path |-> path, name |-> old_name,
            new_name |-> new_name, item_data |-> item_data],
           UpdateItemCall(data, path, old_name, new_name, item_data))

DeleteItem ==
  /\ call = Idle
  /\ WithinBound
  /\ \E path \in ParentPaths, name \in Names :
       Finish([op |-> "delete_item", path |-> path, name |-> name],
           DeleteItemCall(data, path, name))

MoveItem ==
  /\ call = Idle
  /\ WithinBound
  /\ \E source_path \in ParentPaths, source_name \in Names, target_path \in Paths :
       Finish([op |-> "move_item", path |-> source_path, name |-> source_name,
            target |-> target_path],
           MoveItemCall(data, source_path, source_name, target_path))

\* The lookups read the tree and leave it as it is; they are explored on
\* the trees within the bound
GetItemAtPathStep ==
  /\ call = Idle
  /\ WithinBound
  /\ \E path \in Paths :
       Step([op |-> "get_item_at_path", path |-> path],
            Outcome(data, RetLookup(GetItemAtPath(data, path)), <<>>))

GetFolderDataStep ==
  /\ call = Idle
  /\ WithinBound
  /\ \E path \in Paths :
       Step([op |-> "get_folder_data", path |-> path],
            Outcome(data, RetLookup(GetFolderData(data, path)), <<>>))

\* The caller takes the returned value (the UI handlers read `success` and
\* go back to the event loop); the tree stays as the call left it
Search ==
  /\ call = Idle
  /\ WithinBound \/ data = DefaultData
  /\ \E query \in Queries :
       Step([op |-> "search", query |-> query], DataManagerSearchCall(data, query))

ServiceSearch ==
  /\ call = Idle
  /\ WithinBound \/ data = DefaultData
  /\ \E query \in Queries, options \in SearchOptions :
       Step([op |-> "service_search", query |-> query, options |-> options],
            SearchServiceSearchCall(data, query, options))

ExportSpecificFolderHtml ==
  /\ call = Idle
  /\ WithinBound
  /\ \E folder_path \in ParentPaths, writable \in BOOLEAN :
       LET out == ExportSpecificFolderHtmlCall(data, folder_path, writable)
       IN  Step([op |-> "export_specific_folder_html", folder_path |-> folder_path,
                 writable |-> writable, written |-> out.written], out)

ExportSpecificFolderJson ==
  /\ call = Idle
  /\ WithinBound
  /\ \E folder_path \in ParentPaths, writable \in BOOLEAN :
       LET out == ExportSpecificFolderJsonCall(data, folder_path, writable)
       IN  Step([op |-> "export_specific_folder_json", folder_path |-> folder_path,
                 writable |-> writable, written |-> out.written], out)

Return ==
  /\ call # Idle
  /\ call' = Idle
  /\ prev' = data
  /\ ret' = Ret("None", "")
  /\ notes' = <<>>
  /\ progress' = <<>>
  /\ UNCHANGED data
  /\ UNCHANGED model_vars
  /\ UNCHANGED lock_vars

\* load() is explored on the trees within the bound
Load ==
  /\ call = Idle
  /\ WithinBound
  /\ \E file \in JsonFiles :
       Step([op |-> "load", file |-> file, origin |-> "disk"], LoadCall(data, file))

\* An import is explored on the trees within the bound
ImportJson ==
  /\ call = Idle
  /\ WithinBound
  /\ \E file \in JsonFiles :
       Step([op |-> "import_json", file |-> file, origin |-> "disk"],
            ImportJsonCall(data, file))

ImportHtml ==
  /\ call = Idle
  /\ WithinBound
  /\ \E file \in HtmlFiles :
       \E order \in RootOrders(file.soup) :
         \E lines \in IF HandedOver(file) THEN LineCounts ELSE {1} :
           Step([op |-> "import_html", file |-> file, order |-> order,
                 lines |-> lines],
                ImportHtmlCall(data, file, order))

\* An export is explored on the trees within the bound and on the default tree
ExportHtml ==
  /\ call = Idle
  /\ WithinBound \/ data = DefaultData
  /\ Step([op |-> "export_html"], ExportHtmlCall(data))

\* The file just exported is imported again, in either environment
ReimportHtml ==
  /\ call.op = "export_html"
  /\ \E parser \in Parsers :
       LET file == ExportedFile(data, parser)
       IN  \E order \in RootOrders(file.soup) :
             Step([op |-> "import_html", file |-> file, order |-> order,
                   lines |-> 1],
                  ImportHtmlCall(data, file, order))

\* save and export_json are explored on the trees within the bound and on
\* the default tree; the file may or may not be writable
Save ==
  /\ call = Idle
  /\ WithinBound \/ data = DefaultData
  /\ \E writable \in BOOLEAN :
       Step([op |-> "save", written |-> writable /\ SimpleValidate(data).valid],
            SaveCall(data, writable))

\* The application starts again and loads the file save() wrote
Reload ==
  /\ call.op = "save"
  /\ call.written
  /\ LET file == JsonFileOf(data)
     IN  Step([op |-> "load", file |-> file, origin |-> "save"], LoadCall(data, file))

ExportJson ==
  /\ call = Idle
  /\ WithinBound \/ data = DefaultData
  /\ \E writable \in BOOLEAN :
       Step([op |-> "export_json", written |-> writable], ExportJsonCall(data, writable))

\* The file just exported is imported again
ReimportJson ==
  /\ call.op = "export_json"
  /\ call.written
  /\ LET file == JsonFileOf(data)
     IN  Step([op |-> "import_json", file |-> file, origin |-> "export_json"],
              ImportJsonCall(data, file))

Next ==
  \/ Load
  \/ AddFolder
  \/ AddUrl
  \/ UpdateItem
  \/ DeleteItem
  \/ MoveItem
  \/ GetItemAtPathStep
  \/ GetFolderDataStep
  \/ ImportJson
  \/ ImportHtml
  \/ ExportHtml
  \/ ReimportHtml
  \/ Save
  \/ Reload
  \/ ExportJson
  \/ ReimportJson
  \/ Search
  \/ ServiceSearch
  \/ ExportSpecificFolderHtml
  \/ ExportSpecificFolderJson
  \/ Return

Spec == Init /\ [][Next]_vars

(* ------------------- the Folder and Bookmark objects ------------------- *)

\* The largest reading of the clock
MaxClock == 1

\* The largest number of objects below the root Folder
MaxObjects == 2

\* An argument left at its default, None
NotGiven == "NotGiven"

\* The object a path of child names leads to, and the root with the object at
\* that path replaced
RECURSIVE ObjAt(_, _)
ObjAt(obj, path) ==
  IF path = <<>> THEN obj
  ELSE ObjAt(DictGet(obj.children, Head(path)), Tail(path))

RECURSIVE ObjPut(_, _, _)
ObjPut(obj, path, new) ==
  IF path = <<>> THEN new
  ELSE [obj EXCEPT !.children =
          DictSet(obj.children, Head(path),
                  ObjPut(DictGet(obj.children, Head(path)), Tail(path), new))]

RECURSIVE ObjPaths(_)
ObjPaths(obj) ==
  {<<>>} \cup
  (IF obj.kind = "folder"
   THEN UNION {{<<obj.children[i].k>> \o p : p \in ObjPaths(obj.children[i].v)} :
               i \in 1..Len(obj.children)}
   ELSE {})

FolderPaths == {p \in ObjPaths(root) : ObjAt(root, p).kind = "folder"}

BookmarkPaths == {p \in ObjPaths(root) : ObjAt(root, p).kind = "url"}

\* The result of a method: the object after it, what it returned and how many
\* times it emitted `changed`
Did(obj, val, emitted) == [obj |-> obj, ret |-> val, changed |-> emitted]

\* Folder.update(name, description)
FolderUpdate(self, name, description, time) ==
  Did([self EXCEPT !.name = IF name # NotGiven THEN name ELSE @,
                   !.description = IF description # NotGiven THEN description ELSE @,
                   !.modified = time],
      NotGiven, 1)

\* Bookmark.update(name, url, description); icon and tags are assigned the
\* same way as description
BookmarkUpdate(self, name, url, description, time) ==
  Did([self EXCEPT !.name = IF name # NotGiven THEN name ELSE @,
                   !.url = IF url # NotGiven THEN url ELSE @,
                   !.description = IF description # NotGiven THEN description ELSE @,
                   !.modified = time],
      NotGiven, 1)

\* Folder.add_child(name, child)
AddChild(self, name, child) ==
  IF DictHas(self.children, name) THEN Did(self, FALSE, 0)
  ELSE Did([self EXCEPT !.children = DictSet(@, name, child)], TRUE, 1)

\* Folder.remove_child(name)
RemoveChild(self, name) ==
  IF ~DictHas(self.children, name) THEN Did(self, FALSE, 0)
  ELSE Did([self EXCEPT !.children = DictPop(@, name)], TRUE, 1)

\* Folder.rename_child(old_name, new_name): the child is popped and stored
\* again under the new key, its own name attribute is left alone
RenameChild(self, old_name, new_name) ==
  IF ~DictHas(self.children, old_name) \/ DictHas(self.children, new_name)
  THEN Did(self, FALSE, 0)
  ELSE Did([self EXCEPT !.children =
              DictSet(DictPop(@, old_name), new_name, DictGet(@, old_name))],
           TRUE, 1)

\* A method of the object at `path` has run
ModelStep(c, path, did) ==
  /\ root' = ObjPut(root, path, did.obj)
  /\ mprev' = root
  /\ mcall' = [c EXCEPT !.ret = did.ret, !.changed = did.changed]
  /\ UNCHANGED now
  /\ UNCHANGED store_vars
  /\ UNCHANGED lock_vars

MCall(op, path) == [op |-> op, path |-> path, ret |-> NotGiven, changed |-> 0]

\* The clock moves on between two calls
Tick ==
  /\ now < MaxClock
  /\ now' = now + 1
  /\ mcall' = Idle
  /\ mprev' = root
  /\ UNCHANGED root
  /\ UNCHANGED store_vars
  /\ UNCHANGED lock_vars

\* The arguments update is called with: none, or a new value for each
UpdateArgs ==
  {[name |-> NotGiven, url |-> NotGiven, description |-> NotGiven],
   [name |-> "C", url |-> "v", description |-> "d"]}

FolderUpdateStep ==
  \E path \in FolderPaths, a \in UpdateArgs :
    ModelStep(MCall("Folder.update", path), path,
              FolderUpdate(ObjAt(root, path), a.name, a.description, now))

BookmarkUpdateStep ==
  \E path \in BookmarkPaths, a \in UpdateArgs :
    ModelStep(MCall("Bookmark.update", path), path,
              BookmarkUpdate(ObjAt(root, path), a.name, a.url, a.description, now))

\* The child handed to add_child is a Folder or a Bookmark made just before
AddChildStep ==
  \E path \in FolderPaths, name \in Names, kind \in {"folder", "url"} :
    LET child == IF kind = "folder" THEN NewFolder(name, now)
                 ELSE NewBookmark(name, "u", now)
    IN
    /\ Cardinality(ObjPaths(root)) <= MaxObjects
    /\ ModelStep(MCall("add_child", path), path,
                 AddChild(ObjAt(root, path), name, child))

RemoveChildStep ==
  \E path \in FolderPaths, name \in Names :
    ModelStep(MCall("remove_child", path), path,
              RemoveChild(ObjAt(root, path), name))

RenameChildStep ==
  \E path \in FolderPaths, old_name \in Names, new_name \in Names :
    ModelStep(MCall("rename_child", path), path,
              RenameChild(ObjAt(root, path), old_name, new_name))

NextObjects ==
  \/ Tick
  \/ FolderUpdateStep
  \/ BookmarkUpdateStep
  \/ AddChildStep
  \/ RemoveChildStep
  \/ RenameChildStep

SpecObjects == Init /\ [][NextObjects]_vars

(* ------------------ the lock-guarded DataManager of main.py ------------ *)

\* A call a thread is in: the method, its arguments, where it is (waiting at
\* `with self.data_lock:`, in the body, or leaving the with block with its
\* return value), and what the call it made inside has returned
Frame(op, args) ==
  [op |-> op, args |-> args, at |-> "acquire", inner |-> "none", val |-> "nothing"]

\* The arguments of the calls
LockedCalls ==
  {Frame("save", <<>>)}
    \cup {Frame("get_item_at_path", <<path>>) : path \in {<<>>, <<"A">>}}
    \cup {Frame("update_item", <<path, "A", "B">>) : path \in {<<>>, <<"A">>}}
    \cup {Frame("add_url", <<path, "A", "u1">>) : path \in {<<>>, <<"A">>}}

Top(t) == threads[t].stack[Len(threads[t].stack)]

SetTop(t, frame) ==
  [threads EXCEPT ![t].stack = [@ EXCEPT ![Len(@)] = frame]]

\* A thread that is in no call calls a method
Invoke(t) ==
  /\ threads[t].stack = <<>>
  /\ \E frame \in LockedCalls :
       threads' = [threads EXCEPT ![t].stack = <<frame>>]
  /\ UNCHANGED <<data_lock, guarded>>
  /\ UNCHANGED <<store_vars, model_vars>>

\* `with self.data_lock:` of any of the four methods: Lock.acquire() returns
\* when the lock is free, whichever thread holds it otherwise
Acquire(t) ==
  /\ threads[t].stack # <<>>
  /\ Top(t).at = "acquire"
  /\ ~data_lock
  /\ data_lock' = TRUE
  /\ threads' = SetTop(t, [Top(t) EXCEPT !.at = "body"])
  /\ UNCHANGED guarded
  /\ UNCHANGED <<store_vars, model_vars>>

\* The value get_item_at_path returns for the tree: the dict at the path
LockedLookup(path) ==
  IF GetItemAtPath(guarded, path).ok THEN "dict" ELSE "None"

\* The body of update_item once get_item_at_path has returned; new_data is
\* the empty dict
UpdateBody(frame) ==
  LET path == frame.args[1]
      old_name == frame.args[2]
      new_name == frame.args[3]
      item == GetItemAtPath(guarded, path)
  IN  IF frame.inner = "None" \/ item.val = <<>> \/ ~DictHas(item.val, old_name)
      THEN [tree |-> guarded, val |-> "False"]
      ELSE IF new_name # old_name /\ DictHas(item.val, new_name)
      THEN [tree |-> guarded, val |-> "False"]
      ELSE [tree |-> StoreAtPath(guarded, path,
                       DictSet(DictPop(item.val, old_name), new_name,
                               DictGet(item.val, old_name))),
            val |-> "True"]

\* The body of add_url once get_item_at_path has returned
AddUrlBody(frame) ==
  LET path == frame.args[1]
      name == frame.args[2]
      parent == GetItemAtPath(guarded, path)
  IN  IF frame.inner = "None" THEN [tree |-> guarded, val |-> "False"]
      ELSE IF DictHas(parent.val, name) THEN [tree |-> guarded, val |-> "False"]
      ELSE [tree |-> StoreAtPath(guarded, path,
                       DictSet(parent.val, name,
                               [type |-> "url", url |-> frame.args[3], name |-> name,
                                icon |-> ""])),
            val |-> "True"]

\* The body of the with block.  save (data_file is None) and get_item_at_path
\* run to their return; update_item and add_url first call
\* self.get_item_at_path(path), a new call of this thread, and run on when it
\* has returned
Run(t) ==
  /\ threads[t].stack # <<>>
  /\ Top(t).at = "body"
  /\ LET frame == Top(t)
     IN  IF frame.op = "save"
         THEN /\ threads' = SetTop(t, [frame EXCEPT !.at = "release", !.val = "True"])
              /\ UNCHANGED guarded
         ELSE IF frame.op = "get_item_at_path"
         THEN /\ threads' = SetTop(t, [frame EXCEPT !.at = "release",
                                                    !.val = LockedLookup(frame.args[1])])
              /\ UNCHANGED guarded
         ELSE IF frame.inner = "none"
         THEN /\ threads' = [threads EXCEPT ![t].stack =
                               Append(@, Frame("get_item_at_path", <<frame.args[1]>>))]
              /\ UNCHANGED guarded
         ELSE LET done == IF frame.op = "update_item" THEN UpdateBody(frame)
                          ELSE AddUrlBody(frame)
              IN  /\ guarded' = done.tree
                  /\ threads' = SetTop(t, [frame EXCEPT !.at = "release", !.val = done.val])
  /\ UNCHANGED data_lock
  /\ UNCHANGED <<store_vars, model_vars>>

\* Leaving the with block: the lock is released, whoever took it, and the
\* call returns to the call that made it or to the thread
Release(t) ==
  /\ threads[t].stack # <<>>
  /\ Top(t).at = "release"
  /\ data_lock' = FALSE
  /\ LET below == SubSeq(threads[t].stack, 1, Len(threads[t].stack) - 1)
     IN  threads' =
           IF below = <<>>
           THEN [threads EXCEPT ![t] = [stack |-> <<>>, returned |-> Top(t).val]]
           ELSE [threads EXCEPT ![t].stack =
                   [below EXCEPT ![Len(below)].inner = Top(t).val]]
  /\ UNCHANGED guarded
  /\ UNCHANGED <<store_vars, model_vars>>

NextLocked ==
  \/ \E t \in Threads : Invoke(t)
  \/ \E t \in Threads : Acquire(t)
  \/ \E t \in Threads : Run(t)
  \/ \E t \in Threads : Release(t)

\* Every thread that can run does run, and a thread waiting for the lock
\* gets it if the lock is free again and again
SpecLocked ==
  /\ Init
  /\ [][NextLocked]_vars
  /\ \A t \in Threads :
       /\ SF_vars(Acquire(t))
       /\ WF_vars(Run(t))
       /\ WF_vars(Release(t))

(* ----------------------------- properties ------------------------------ *)

\* The vocabulary of the properties: paths, the node a path names, and the
\* last call with the tree it was made on (prev) and the tree it left (data)

IsPrefix(p, q) == Len(p) <= Len(q) /\ SubSeq(q, 1, Len(p)) = p

\* The node a non-empty path names: every segment is a child of the one
\* before, which is a folder
RECURSIVE NodeAt(_, _)
NodeAt(d, path) ==
  IF ~DictHas(d, Head(path)) THEN None
  ELSE LET node == DictGet(d, Head(path))
       IN  IF Len(path) = 1 THEN Some(node)
           ELSE IF node.type = "folder" THEN NodeAt(node.children, Tail(path))
           ELSE None

\* The path names a folder (the empty path names the root)
IsFolderAt(d, path) ==
  path = <<>> \/ (NodeAt(d, path).ok /\ NodeAt(d, path).val.type = "folder")

\* The children of the folder a path names
ChildrenAt(d, path) == IF path = <<>> THEN d ELSE NodeAt(d, path).val.children

\* The path names a child that exists under a folder that exists
HasChild(d, path, name) == IsFolderAt(d, path) /\ DictHas(ChildrenAt(d, path), name)

\* No folder of the tree has two children of one name
RECURSIVE NoDuplicateNames(_)
NoDuplicateNames(d) ==
  /\ \A i, j \in 1..Len(d) : d[i].k = d[j].k => i = j
  /\ \A i \in 1..Len(d) :
       LET item == d[i].v
       IN  ({"type", "children"} \subseteq DOMAIN item /\ IsDict(item.children))
             => NoDuplicateNames(item.children)

Keys(item_data) == {p[1] : p \in item_data}

Mutations == {"add_folder", "add_url", "update_item", "delete_item", "move_item"}

Imports == {"import_json", "import_html"}

\* The last call was a move_item whose two paths name folders and whose
\* name is a child of the source folder
MoveOfChild ==
  /\ call.op = "move_item"
  /\ HasChild(prev, call.path, call.name)
  /\ IsFolderAt(prev, call.target)

\* The last call was an update_item of a child that exists
UpdateOfChild == call.op = "update_item" /\ HasChild(prev, call.path, call.name)

(* C1 *)

\* C1, as the claim states it: a move_item whose paths name folders and whose
\* name is a child of the source is rejected by the cycle check exactly when
\* the target is source_path + [name] or below it, and a rejected move leaves
\* the tree as it was.
C1_CycleIffBelow ==
  /\ MoveOfChild =>
       (ret.log = "cycle" <=> IsPrefix(Append(call.path, call.name), call.target))
  /\ (call.op = "move_item" /\ ret.val = "False") => data = prev

\* C1, as the code has it: such a move into the moved folder or below it is
\* always rejected, by the cycle check exactly when the target folder has no
\* child of that name (the name check comes first and rejects it otherwise);
\* every rejected move leaves the tree as it was and emits nothing.
C1_MoveBelowRejected ==
  /\ MoveOfChild =>
       LET below == IsPrefix(Append(call.path, call.name), call.target)
           taken == DictHas(ChildrenAt(prev, call.target), call.name)
       IN  /\ below => ret.val = "False"
           /\ ret.log = "cycle" <=> (below /\ ~taken)
           /\ taken => (ret.val = "False" /\ ret.log = "name_exists")
  /\ (call.op = "move_item" /\ ret.val = "False") => (data = prev /\ notes = <<>>)
  /\ call.op = "move_item" => ret.val \in {"True", "False"}

\* A folder was moved to a folder below itself and the cycle check rejected it
C1_Witness ==
  /\ MoveOfChild
  /\ Len(call.target) > Len(call.path) + 1
  /\ IsPrefix(Append(call.path, call.name), call.target)
  /\ ret.log = "cycle"
  /\ data = prev

(* C2 *)

\* C2: no folder ever has two children of one name; add_folder and add_url
\* on a parent that exists fail exactly when the name is a child of it, a
\* failed add leaves the tree as it was, and a successful add appends one
\* child of that name and kind to the parent and changes nothing else.
C2_UniqueNames ==
  /\ NoDuplicateNames(data)
  /\ (call.op \in {"add_folder", "add_url"} /\ IsFolderAt(prev, call.path)) =>
       LET parent == ChildrenAt(prev, call.path)
           after  == ChildrenAt(data, call.path)
       IN  /\ ret.val \in {"True", "False"}
           /\ ret.val = "False" <=> DictHas(parent, call.name)
           /\ ret.val = "False" => data = prev
           /\ ret.val = "True" =>
                /\ IsFolderAt(data, call.path)
                /\ Len(after) = Len(parent) + 1
                /\ SubSeq(after, 1, Len(parent)) = parent
                /\ after[Len(after)].k = call.name
                /\ after[Len(after)].v.type = (IF call.op = "add_url" THEN "url" ELSE "folder")
                /\ call.op = "add_url" => after[Len(after)].v.url = call.url
                /\ call.op = "add_folder" => after[Len(after)].v.children = <<>>
                /\ data = StoreAtPath(prev, call.path, after)
  /\ (call.op \in {"add_folder", "add_url"} /\ ~IsFolderAt(prev, call.path)) =>
       (ret.val = "False" /\ data = prev)

\* An add of a name that a folder below the root already has was rejected
C2_Witness ==
  /\ call.op \in {"add_folder", "add_url"}
  /\ call.path # <<>>
  /\ HasChild(prev, call.path, call.name)
  /\ ret.val = "False"
  /\ data = prev

(* C3 *)

C4_NeverRaises ==
  (call.op \in Mutations /\ SimpleValidate(prev).valid) =>
    /\ ret.val \in {"True", "False"}
    /\ UpdateOfChild =>
         \/ HasChild(data, call.path, call.name)
         \/ HasChild(data, call.path, call.new_name)

\* update_item raised KeyError on a url node of a valid tree that has no
\* icon field, and the node is gone from its folder
C4_Witness ==
  /\ UpdateOfChild
  /\ SimpleValidate(prev).valid
  /\ ret.val = "KeyError"
  /\ ~HasChild(data, call.path, call.name)
  /\ ~HasChild(data, call.path, call.new_name)

(* C5 *)

\* C5, as the claim states it: update_item with new_name = old_name and no
\* field to change, on a child that exists, returns True and leaves the
\* tree as it was, the order of the siblings and the fields of the node
\* included.
C5_SameNameRenameIsNoOp ==
  (UpdateOfChild /\ call.new_name = call.name /\ call.item_data = {}) =>
    (ret.val = "True" /\ data = prev)

\* A rename of a folder to its own name returned True and the tree differs:
\* the folder has every child it had, and is now the last of its siblings
\* or carries a name field it did not have
C5_Witness ==
  /\ UpdateOfChild
  /\ call.new_name = call.name
  /\ call.item_data = {}
  /\ NodeAt(prev, Append(call.path, call.name)).val.type = "folder"
  /\ ret.val = "True"
  /\ data # prev
  /\ Len(ChildrenAt(prev, call.path)) = 2
  /\ ChildrenAt(prev, call.path)[1].k = call.name
  /\ ChildrenAt(data, call.path)[2].k = call.name

(* C6 *)

\* C6, as the claim states it: a move of a child to the folder it is in
\* returns success and leaves the tree as it was.
C6_SameFolderMoveSucceeds ==
  (MoveOfChild /\ call.target = call.path) => (ret.val = "True" /\ data = prev)

\* C6, as the code has it: a move of a child to the folder it is in is
\* rejected by the name check (the folder has a child of that name: the
\* child itself); it returns False, emits nothing and leaves the tree as it
\* was.
C6_SameFolderMoveRejected ==
  (MoveOfChild /\ call.target = call.path) =>
    (ret.val = "False" /\ ret.log = "name_exists" /\ data = prev /\ notes = <<>>)

\* A child of a folder below the root was moved to that folder
C6_Witness ==
  /\ MoveOfChild
  /\ call.target = call.path
  /\ call.path # <<>>
  /\ ret.val = "False"
  /\ data = prev

(* C7 *)

C8_DeleteSubtree ==
  call.op = "delete_item" =>
    LET full == Append(call.path, call.name)
    IN  IF HasChild(prev, call.path, call.name)
        THEN /\ ret.val = "True"
             /\ \A q \in Paths \ {<<>>} : IsPrefix(full, q) => ~NodeAt(data, q).ok
             /\ \A q \in Paths \ {<<>>} :
                  ~IsPrefix(full, q) =>
                    /\ NodeAt(data, q).ok = NodeAt(prev, q).ok
                    /\ (NodeAt(prev, q).ok /\ ~IsPrefix(q, full)) =>
                         NodeAt(data, q).val = NodeAt(prev, q).val
                    /\ (NodeAt(prev, q).ok /\ IsPrefix(q, full)) =>
                         NodeAt(data, q).val.type = "folder"
             /\ IsFolderAt(data, call.path)
             /\ ChildrenAt(data, call.path)
                  = SelectSeq(ChildrenAt(prev, call.path), LAMBDA e : e.k # call.name)
             /\ data = StoreAtPath(prev, call.path, ChildrenAt(data, call.path))
        ELSE ret.val = "False" /\ data = prev

\* A folder that has a child was deleted
C8_Witness ==
  /\ call.op = "delete_item"
  /\ ret.val = "True"
  /\ NodeAt(prev, Append(call.path, call.name)).val.type = "folder"
  /\ NodeAt(prev, Append(call.path, call.name)).val.children # <<>>
  /\ ~NodeAt(data, Append(call.path, call.name)).ok

(* C9 *)

\* C9: every tree store mutation that returns True, and every import that
\* merged something into the tree, has emitted data_changed, and each emit
\* of the call showed the tree as the call left it.
C9_NotifiedAfterMutation ==
  /\ (call.op \in Mutations /\ ret.val = "True") =>
       (notes # <<>> /\ \A i \in 1..Len(notes) : notes[i] = data)
  /\ (call.op \in Imports /\ (data # prev \/ ret.n > 0)) =>
       (notes # <<>> /\ \A i \in 1..Len(notes) : notes[i] = data)

\* A subtree was deleted from a tree of two nodes and the slots saw the
\* tree without it
C9_Witness ==
  /\ call.op = "delete_item"
  /\ ret.val = "True"
  /\ CountNodes(prev) = MaxNodes
  /\ notes = <<data>>
  /\ data # prev

(* C10 *)

\* C10, as the claim states it: when import_json or import_html returns 0
\* the tree is as it was before the call.
C10_ZeroMeansUnchanged ==
  (call.op \in Imports /\ ret.val = "int" /\ ret.n = 0) => data = prev

\* import_json returned 0 from its except clause after it had put the
\* imported folder into the tree and emitted data_changed
C10_Witness ==
  /\ call.op = "import_json"
  /\ ret.val = "int"
  /\ ret.n = 0
  /\ ret.log = "exception"
  /\ Len(data) = Len(prev) + 1
  /\ notes = <<data>>

(* C11 *)

\* C11, as the claim states it: an import_html that imported something puts
\* one new folder into the root, under a name the root did not have, and
\* leaves every child the root had, with its subtree, as it was.
C11_OneFreshRootFolder ==
  (call.op = "import_html" /\ ret.val = "int" /\ ret.n > 0) =>
    /\ Len(data) = Len(prev) + 1
    /\ SubSeq(data, 1, Len(prev)) = prev
    /\ ~DictHas(prev, data[Len(data)].k)
    /\ data[Len(data)].v.type = "folder"

\* The chunked fallback imported a file into a tree that held the folder of
\* an earlier such import: the root has no new folder, and the folder of
\* the earlier import holds the links of this file in place of its own
C11_Witness ==
  /\ call.op = "import_html"
  /\ ~call.file.dl_text
  /\ ret.val = "int"
  /\ ret.n > 0
  /\ DictHas(prev, "ImportedLinks")
  /\ Len(data) = Len(prev)
  /\ DictGet(data, "ImportedLinks") # DictGet(prev, "ImportedLinks")

(* C12 *)

\* C12: import_html of a file that exists and is larger than 3 MB or has no
\* byte returns 0 from the size guard, leaves the tree as it was and emits
\* no data_changed, also when the file cannot be read: the guard comes before
\* the file is opened.  A file of exactly 3 MB passes the guard.
C12_SizeGuard ==
  (call.op = "import_html" /\ call.file.exists) =>
    /\ (call.file.size > 3 * 1024 * 1024 \/ call.file.size = 0) =>
         /\ ret.val = "int" /\ ret.n = 0
         /\ ret.log = (IF call.file.size = 0 THEN "empty" ELSE "too_large")
         /\ data = prev
         /\ notes = <<>>
    /\ (call.file.size > 0 /\ call.file.size <= 3 * 1024 * 1024) =>
         ret.log \notin {"empty", "too_large"}

\* A file of more than 3 MB that cannot be read was rejected for its size
C12_Witness ==
  /\ call.op = "import_html"
  /\ call.file.exists
  /\ ~call.file.readable
  /\ call.file.size > 3 * 1024 * 1024
  /\ ret.log = "too_large"
  /\ ret.n = 0
  /\ data = prev
  /\ notes = <<>>

(* C13 *)

\* N + " (n)"
Suffixed(N, n) == N \o " (" \o ToString(n) \o ")"

\* The texts of the folder-markers (h3) of a parsed document
RECURSIVE MarkerTexts(_)
MarkerTexts(kids) ==
  UNION { (IF kids[i].tag = "h3" THEN {kids[i].text} ELSE {}) \cup MarkerTexts(kids[i].kids)
          : i \in 1..Len(kids) }

\* The names the folders of the imported file have before any suffix: the
\* texts of its folder-markers and the fixed names of the import
FolderBases ==
  {"UnnamedFolder", "UncategorizedLinks"} \cup MarkerTexts(call.file.soup)

\* The i-th child of a container, placed under the name N after the children
\* before it, has the key N when none of them has it, and otherwise
\* N + " (n)" for the smallest n >= 1 that none of them has
StoredUnder(container, i, N) ==
  LET before == {container[j].k : j \in 1..(i - 1)}
      key    == container[i].k
  IN  IF N \notin before THEN key = N
      ELSE \E n \in 1..Len(container) :
             /\ key = Suffixed(N, n)
             /\ key \notin before
             /\ \A m \in 1..(n - 1) : Suffixed(N, m) \in before

\* Every child of every container of an imported tree is stored under its
\* name: a bookmark under its name field, a folder under one of the names
RECURSIVE WellSuffixed(_)
WellSuffixed(container) ==
  \A i \in 1..Len(container) :
    LET item == container[i].v
    IN  IF item.type = "url" THEN StoredUnder(container, i, item.name)
        ELSE /\ \E N \in FolderBases : StoredUnder(container, i, N)
             /\ WellSuffixed(item.children)

\* The folder an import_html that imported something has put into the root
ImportedFolder ==
  IF call.file.dl_text THEN data[Len(data)].v ELSE DictGet(data, "ImportedLinks")

RECURSIVE BookmarkSeq(_)
BookmarkSeq(d) ==
  IF d = <<>> THEN <<>>
  ELSE LET item == Head(d).v
       IN  (IF item.type = "folder" THEN BookmarkSeq(item.children)
            ELSE << [k |-> Head(d).k, name |-> item.name, url |-> item.url] >>)
           \o BookmarkSeq(Tail(d))

\* C14, as the claim states it: the import of a file of two folders that
\* hold one link named Home each succeeds, and the imported tree holds the
\* two links, the first under "Home" and the second under "Home (1)".
C14_SecondHomeSuffixed ==
  (call.op = "import_html" /\ call.file = FileTwoHome) =>
    /\ ret.val = "int" /\ ret.n > 0
    /\ LET b == BookmarkSeq(ImportedFolder.children)
       IN  /\ Len(b) = 2
           /\ {<<b[i].k, b[i].url>> : i \in 1..Len(b)}
                = {<<"Home", "u1">>, <<"Home (1)", "u2">>}

\* The import of that file stored each link twice: the second folder holds
\* the second link under "Home" and again under "Home (1)", and the first
\* folder the first link likewise
C14_Witness ==
  /\ call.op = "import_html"
  /\ call.file = FileTwoHome
  /\ ret.val = "int"
  /\ LET b == BookmarkSeq(ImportedFolder.children)
     IN  /\ Len(b) = 4
         /\ {<<b[i].k, b[i].url>> : i \in 1..Len(b)}
              = {<<"Home", "u1">>, <<"Home (1)", "u1">>,
                 <<"Home", "u2">>, <<"Home (1)", "u2">>}

(* C15 *)

\* The last call imported the file that export_html wrote of the tree
RoundTripHtml ==
  /\ call.op = "import_html"
  /\ ExportOk(prev)
  /\ \E parser \in Parsers : call.file = ExportedFile(prev, parser)

\* What the last import added: the children of the new root folder
AddedByImport ==
  IF Len(data) > Len(prev) THEN data[Len(data)].v.children ELSE <<>>

\* The (name, url) pairs of the bookmarks of a tree; the name field of a
\* bookmark is its name without a suffix
NameUrlPairs(d) ==
  LET b == BookmarkSeq(d) IN [i \in 1..Len(b) |-> <<b[i].name, b[i].url>>]

Occurrences(seq, x) == Cardinality({i \in 1..Len(seq) : seq[i] = x})

SameMultiset(s, t) ==
  /\ Len(s) = Len(t)
  /\ \A i \in 1..Len(s) : Occurrences(s, s[i]) = Occurrences(t, s[i])

\* C15, as the claim states it: after a tree is exported with export_html
\* and the file imported with import_html, the folder the import added holds
\* the same multiset of (name, url) pairs as the tree had, and so as many
\* bookmarks.
C15_HtmlRoundTrip ==
  RoundTripHtml => SameMultiset(NameUrlPairs(prev), NameUrlPairs(AddedByImport))

\* The round trip of the default tree: collect_all_items gathered the links
\* of the nested folders again and again, and its five bookmarks came back
\* as 23 (read by html.parser alone) or 22 (cleaned by lxml first)
C15_Witness ==
  /\ RoundTripHtml
  /\ prev = DefaultData
  /\ Len(BookmarkSeq(prev)) = 5
  /\ Len(BookmarkSeq(AddedByImport)) \in {22, 23}

(* C16 *)

\* The file is read and consists of anchors with a url, with no list marker
\* (<DL>, <DT>) in its text
FlatAnchorFile(file) ==
  /\ file.exists /\ file.readable
  /\ file.size > 0 /\ ~FileTooLarge(file)
  /\ ~file.dl_text /\ ~file.head_dl /\ ~file.head_dt
  /\ file.soup # <<>>
  /\ \A i \in 1..Len(file.soup) : file.soup[i].tag = "a" /\ file.soup[i].href # ""

\* C16, as the claim states it: import_html of a file of flat anchors and no
\* list marker returns the number of the anchors and leaves one folder that
\* holds one bookmark for each anchor, in their order, and nothing else.
C16_FlatAnchorsRecovered ==
  (call.op = "import_html" /\ FlatAnchorFile(call.file)) =>
    /\ ret.val = "int"
    /\ ret.n = Len(call.file.soup)
    /\ DictHas(data, "ImportedLinks")
    /\ LET children == DictGet(data, "ImportedLinks").children
       IN  /\ Len(children) = Len(call.file.soup)
           /\ \A i \in 1..Len(children) :
                /\ children[i].v.type = "url"
                /\ children[i].v.url = call.file.soup[i].href
                /\ children[i].v.name = call.file.soup[i].text

\* The import of a file whose one anchor has its url in single quotes found
\* no link: it returned 0 and left the tree as it was
C16_Witness ==
  /\ call.op = "import_html"
  /\ call.file = FileOneAnchorSingleQuotes
  /\ FlatAnchorFile(call.file)
  /\ ret.val = "int"
  /\ ret.n = 0
  /\ ret.log = "no_links"
  /\ data = prev
  /\ notes = <<>>

(* C17 *)

\* The last call read the file that save or export_json had just written of
\* the tree
RoundTripJson(op) ==
  /\ call.op = op
  /\ call.origin # "disk"
  /\ SimpleValidate(prev).valid

\* C17, as the claim states it: for every tree that passes validation, save
\* and then load leave data equal to the tree, and export_json and then
\* import_json add a wrapper folder whose children equal the tree.
C17_JsonRoundTrip ==
  /\ RoundTripJson("load") => data = prev
  /\ RoundTripJson("import_json") =>
       /\ Len(data) = Len(prev) + 1
       /\ SubSeq(data, 1, Len(prev)) = prev
       /\ data[Len(data)].v = [type |-> "folder", children |-> prev]

\* C17, amended: the same for every tree that passes validation and has at
\* least one entry; of the empty tree, save and load restore it, while
\* import_json rejects the exported file ({} has no entry of type folder or
\* url), returns 0 and adds no wrapper folder.
C17_JsonRoundTripNonEmpty ==
  /\ RoundTripJson("load") => data = prev
  /\ (RoundTripJson("import_json") /\ prev # <<>>) =>
       /\ Len(data) = Len(prev) + 1
       /\ SubSeq(data, 1, Len(prev)) = prev
       /\ data[Len(data)].v = [type |-> "folder", children |-> prev]
       /\ ret.val = "int" /\ ret.n = CountItems(prev).n
  /\ (RoundTripJson("import_json") /\ prev = <<>>) =>
       /\ data = prev
       /\ ret.val = "int" /\ ret.n = 0
       /\ ret.log = "bad_structure"

\* A tree of two entries came back from export_json and import_json as the
\* children of the wrapper folder, in the same order
C17_Witness ==
  /\ RoundTripJson("import_json")
  /\ Len(prev) = 2
  /\ prev[1].k # prev[2].k
  /\ data[Len(data)].k = "Imported(JSON)"
  /\ data[Len(data)].v.children = prev

(* C18 *)

\* The entry is not an item: it is no object, or has no type "folder" or
\* "url", or is a folder without a children object, or a url without url
\* or name
Offends(item) ==
  \/ ~IsObject(item)
  \/ "type" \notin DOMAIN item
  \/ /\ "type" \in DOMAIN item
     /\ \/ item.type \notin {"folder", "url"}
        \/ item.type = "url" /\ ~({"url", "name"} \subseteq DOMAIN item)
        \/ item.type = "folder" /\ "children" \notin DOMAIN item
        \/ item.type = "folder" /\ "children" \in DOMAIN item /\ ~IsDict(item.children)

\* At every depth every entry is an item
RECURSIVE WellFormed(_)
WellFormed(d) ==
  /\ IsDict(d)
  /\ \A i \in 1..Len(d) :
       /\ ~Offends(d[i].v)
       /\ d[i].v.type = "folder" => WellFormed(d[i].v.children)

\* The keys from the root down to the first entry, in the order of
\* iteration, that is not an item
RECURSIVE FirstOffender(_)
FirstOffender(d) ==
  LET bad(i) == \/ Offends(d[i].v)
                \/ d[i].v.type = "folder" /\ ~WellFormed(d[i].v.children)
      first  == CHOOSE i \in 1..Len(d) : bad(i) /\ \A j \in 1..(i - 1) : ~bad(j)
  IN  IF Offends(d[first].v) THEN <<d[first].k>>
      ELSE <<d[first].k>> \o FirstOffender(d[first].v.children)

RECURSIVE HasUnknownKey(_)
HasUnknownKey(d) ==
  /\ IsDict(d)
  /\ \E i \in 1..Len(d) :
       LET item == d[i].v
       IN  /\ IsObject(item)
           /\ "type" \in DOMAIN item
           /\ \/ item.type = "url" /\ ~(DOMAIN item \subseteq {"type", "url", "name", "icon"})
              \/ item.type = "folder" /\ ~(DOMAIN item \subseteq {"type", "children"})
              \/ /\ item.type = "folder"
                 /\ "children" \in DOMAIN item
                 /\ HasUnknownKey(item.children)

\* C19, as the claim states it: validate_json_schema returns invalid for a
\* document in which a url has a property other than type, url, name, icon
\* or a folder one other than type, children; load() then does not take it.
C19_UnknownKeysRejected ==
  (call.op = "load" /\ call.file.kind = "json" /\ HasUnknownKey(call.file.doc)) =>
    /\ ~SimpleValidate(call.file.doc).valid
    /\ data # call.file.doc

\* load() took a document whose bookmark has the property "extra":
\* validate_json_schema accepted it
C19_Witness ==
  /\ call.op = "load"
  /\ call.file.kind = "json"
  /\ call.file.doc = DocExtraKey
  /\ HasUnknownKey(call.file.doc)
  /\ SimpleValidate(call.file.doc).valid
  /\ ret.log = ""
  /\ data = DocExtraKey
  /\ "extra" \in DOMAIN data[1].v

(* C20 *)

\* C20: when the data file is missing, cannot be read, is no JSON or holds a
\* document that fails validation, load() replaces the tree by the default
\* tree of load_default_data, which is not empty and passes
\* validate_json_schema; and after any load() the tree passes
\* validate_json_schema.
C20_LoadFallsBackToDefault ==
  call.op = "load" =>
    /\ (call.file.kind # "json" \/ ~WellFormed(call.file.doc)) =>
         /\ data = DefaultData
         /\ notes = <<DefaultData>>
    /\ DefaultData # <<>>
    /\ SimpleValidate(DefaultData).valid
    /\ SimpleValidate(data).valid
    /\ ret.val = "None"

\* load() found a document that fails validation in the file and replaced
\* a tree that was not the default tree by the default tree
C20_Witness ==
  /\ call.op = "load"
  /\ call.file.kind = "json"
  /\ ~SimpleValidate(call.file.doc).valid
  /\ prev # DefaultData
  /\ prev # <<>>
  /\ data = DefaultData
  /\ SimpleValidate(data).valid

(* ------------------- C21: the modified timestamp ------------------------ *)

\* The object a method was called on, before and after the call
Before == ObjAt(mprev, mcall.path)

After == ObjAt(root, mcall.path)

\* The last call changed the object it was called on
Mutated ==
  /\ mcall # Idle
  /\ \/ mcall.op \in {"Folder.update", "Bookmark.update"}
     \/ mcall.op \in {"add_child", "remove_child", "rename_child"} /\ mcall.ret = TRUE

\* The objects directly below an object
ChildObjects(obj) ==
  IF obj.kind = "folder" THEN {obj.children[i].v : i \in 1..Len(obj.children)}
  ELSE {}

\* The objects below the mutated one are those that were there, as they were;
\* add_child brings one more
DescendantsKept ==
  IF mcall.op = "add_child"
  THEN Cardinality(ChildObjects(After) \ ChildObjects(Before)) <= 1
  ELSE ChildObjects(After) \subseteq ChildObjects(Before)

\* C21: every mutation of a Folder or Bookmark (update, add_child,
\* remove_child, rename_child) made after the clock has moved on leaves the
\* object's modified strictly later than it was, and leaves the objects below
\* it as they were
C21_ModifiedRefreshed ==
  (Mutated /\ now > Before.modified) =>
    /\ After.modified > Before.modified
    /\ DescendantsKept

\* A successful add_child, made when the clock had moved on, left the
\* folder's modified where it was
C21_Witness ==
  /\ mcall # Idle
  /\ mcall.op = "add_child"
  /\ mcall.ret = TRUE
  /\ now > Before.modified
  /\ After.modified = Before.modified
  /\ Len(After.children) = Len(Before.children) + 1

(* ------------------- C22: progress events ------------------------------- *)

\* The operations of the interchange service
InterchangeOps ==
  {"import_json", "import_html", "export_html", "export_json",
   "export_specific_folder_html", "export_specific_folder_json"}

\* C22: within one operation of the interchange service (import_html with
\* its hand-off to the chunked import included) the progress percentages are
\* within 0..100 and never decrease, the last one is 100, and 100 is emitted
\* exactly once, whichever way the operation returns
C22_ProgressOrdered ==
  call.op \in InterchangeOps =>
    /\ progress # <<>>
    /\ \A i \in 1..Len(progress) : progress[i] \in 0..100
    /\ \A i \in 1..(Len(progress) - 1) : progress[i] <= progress[i + 1]
    /\ progress[Len(progress)] = 100
    /\ Cardinality({i \in 1..Len(progress) : progress[i] = 100}) = 1

\* import_html handed a file of 120000 lines to the chunked import, whose
\* loop reported up to the cap of 80 before the 80 and the 100 that end it
C22_Witness ==
  /\ call.op = "import_html"
  /\ HandedOver(call.file)
  /\ call.lines = 120000
  /\ Len(progress) > 100
  /\ SubSeq(progress, 1, 3) = <<0, 5, 10>>
  /\ progress[Len(progress) - 2] = 80
  /\ progress[Len(progress)] = 100
  /\ ret.n > 0

(* ------------------- C29: subtree export -------------------------------- *)

SubtreeExports == {"export_specific_folder_html", "export_specific_folder_json"}

\* The last call exported a subtree of a tree that validates to a file that
\* can be written
SubtreeExport ==
  /\ call.op \in SubtreeExports
  /\ call.writable
  /\ SimpleValidate(prev).valid

\* C29: a subtree export to a writable file succeeds for every path that
\* names a folder, the empty path of the root included, and returns 1 plus
\* the number of nodes below the folder; it returns 0 and writes no file when
\* the path names no folder; and it leaves the tree alone and emits no change
\* notification
C29_SubtreeExportOfEveryFolder ==
  SubtreeExport =>
    /\ IsFolderAt(prev, call.folder_path) =>
         /\ call.written
         /\ ret.n = 1 + CountItems(ChildrenAt(prev, call.folder_path)).n
    /\ ~IsFolderAt(prev, call.folder_path) => (ret.n = 0 /\ ~call.written)
    /\ data = prev
    /\ notes = <<>>

\* The subtree export of the root of a tree that has nodes returned 0 and
\* wrote no file
C29_Witness ==
  /\ SubtreeExport
  /\ call.folder_path = <<>>
  /\ prev # <<>>
  /\ ret.n = 0
  /\ ret.log = "no_folder"
  /\ ~call.written

(* ------------------- C23: search ---------------------------------------- *)

\* The nodes of a tree that validates, parents before children and siblings
\* in their order, each with its path
RECURSIVE PreOrder(_, _, _)
PreOrder(d, i, path) ==
  IF i > Len(d) THEN <<>>
  ELSE LET here == Append(path, d[i].k)
       IN  << [path |-> here, item |-> d[i].v, name |-> d[i].k] >>
           \o (IF d[i].v.type = "folder" THEN PreOrder(d[i].v.children, 1, here) ELSE <<>>)
           \o PreOrder(d, i + 1, path)

\* The query is part of the text, the case disregarded
Within(query, text) == In(Lower(query), Lower(text))

\* The node has the query in its name, or is a bookmark with it in its url
Matching(node, query) ==
  \/ Within(query, node.name)
  \/ node.item.type = "url" /\ Within(query, node.item.url)

\* The last call was DataManager.search with a query on a tree that validates
SearchOfQuery ==
  /\ call.op = "search"
  /\ call.query # ""
  /\ SimpleValidate(prev).valid

\* The paths of the bookmarks SearchService.search finds by their names
ServiceMatchesByName(d, query) ==
  LET results == SearchServiceSearchCall(d, query, NamesOnly).ret.results
  IN  {results[i].path : i \in 1..Len(results)}

\* The paths of the bookmarks among the results of DataManager.search that
\* have the query in their names
StoreMatchesByName ==
  {ret.results[i].path : i \in
     {j \in 1..Len(ret.results) :
        ret.results[j].item.type = "url" /\ Within(call.query, ret.results[j].name)}}

\* C23: DataManager.search returns exactly the nodes with the query in their
\* name and the bookmarks with it in their url, in depth-first pre-order,
\* each once; and the bookmarks it finds by name are those
\* SearchService.search finds by name
C23_SearchExactAndAgreed ==
  SearchOfQuery =>
    /\ ret.results = SelectSeq(PreOrder(prev, 1, <<>>), LAMBDA node : Matching(node, call.query))
    /\ StoreMatchesByName = ServiceMatchesByName(prev, call.query)

\* DataManager.search("site") found no bookmark by name in a tree where
\* SearchService.search finds one: the bookmark stored under another key
C23_Witness ==
  /\ SearchOfQuery
  /\ call.query = "site"
  /\ StoreMatchesByName = {}
  /\ ServiceMatchesByName(prev, call.query) # {}

(* ------------------- C25: the chunked import ---------------------------- *)

\* The last call was an import_html that handed the file to the chunked
\* import, which imported links
ChunkedImport ==
  /\ call.op = "import_html"
  /\ HandedOver(call.file)
  /\ ret.n > 0

\* What the line loop built from the file of the last call: the dict that
\* holds the folder "ImportedBookmarks"
MachineTree == LineLoop(MachineInit, call.file.flushes, 1).outer

\* The bookmarks of a tree, at any depth
RECURSIVE CountUrls(_)
CountUrls(d) ==
  IF d = <<>> THEN 0
  ELSE (IF Head(d).v.type = "folder" THEN CountUrls(Head(d).v.children) ELSE 1)
       + CountUrls(Tail(d))

\* A link the line loop read after a folder-open marker that no folder-close
\* marker had ended: the marker is in an earlier buffer than the link
LinkAfterMarker(flushes, f, l) ==
  /\ f \in 1..Len(flushes)
  /\ l \in 1..Len(flushes)
  /\ f < l
  /\ \E t \in 1..Len(flushes[f]) : flushes[f][t].tag = "h3"
  /\ \E t \in 1..Len(flushes[l]) : flushes[l][t].tag = "a"
  /\ \A b \in f..l : \A t \in 1..Len(flushes[b]) : flushes[b][t].tag # "/dl"

\* Some folder of the tree has the name and holds a bookmark of the url
RECURSIVE FolderHoldsUrl(_, _, _)
FolderHoldsUrl(d, name, url) ==
  \E i \in 1..Len(d) :
    /\ d[i].v.type = "folder"
    /\ \/ /\ d[i].k = name
          /\ \E j \in 1..Len(d[i].v.children) :
               /\ d[i].v.children[j].v.type = "url"
               /\ d[i].v.children[j].v.url = url
       \/ FolderHoldsUrl(d[i].v.children, name, url)

\* C25: what the chunked import adds to the tree is the folder structure its
\* line loop recognized, so a link read after a folder-open marker, in a
\* later buffer, is inside the folder of that marker; and the count it
\* returns is the number of links the loop placed
C25_LineLoopStructureImported ==
  ChunkedImport =>
    /\ \A i \in 1..Len(MachineTree) :
         /\ DictHas(data, MachineTree[i].k)
         /\ DictGet(data, MachineTree[i].k) = MachineTree[i].v
    /\ \A f, l \in 1..Len(call.file.flushes) :
         LinkAfterMarker(call.file.flushes, f, l) =>
           \A t \in 1..Len(call.file.flushes[f]), u \in 1..Len(call.file.flushes[l]) :
             (call.file.flushes[f][t].tag = "h3" /\ call.file.flushes[l][u].tag = "a")
               => FolderHoldsUrl(data, call.file.flushes[f][t].name,
                                 call.file.flushes[l][u].url)
    /\ ret.n = CountUrls(MachineTree)

\* The chunked import of a file with the marker F on one line and a link on
\* the next added the link in the flat folder "ImportedLinks"; no folder F
\* holds it, in the tree or in what the line loop built
C25_Witness ==
  /\ ChunkedImport
  /\ LinkAfterMarker(call.file.flushes, 1, 2)
  /\ DictHas(data, "ImportedLinks")
  /\ ~DictHas(prev, "ImportedLinks")
  /\ ~FolderHoldsUrl(data, "F", "u1")
  /\ ~FolderHoldsUrl(MachineTree, "F", "u1")
  /\ FolderHoldsUrl(MachineTree, "ImportedBookmarks", "u1")

(* ------------------- C26: flat-then-rebuild ----------------------------- *)

\* The last call was an import_html that found the bookmark list of the
\* document and went through the flat-then-rebuild stage
FlatThenRebuild ==
  /\ call.op = "import_html"
  /\ call.file.exists /\ call.file.readable /\ call.file.valid
  /\ call.file.size # 0 /\ ~FileTooLarge(call.file)
  /\ call.file.dl_text
  /\ Find(call.file.soup, <<>>, "dl").ok

\* The links of a document, as (name, url) pairs in document order, and the
\* number of its folder-markers
RECURSIVE DocumentLinks(_)
DocumentLinks(kids) ==
  IF kids = <<>> THEN <<>>
  ELSE (IF Head(kids).tag = "a" /\ Head(kids).href # ""
        THEN << <<IF Head(kids).text = "" THEN Head(kids).href ELSE Head(kids).text,
                  Head(kids).href>> >>
        ELSE <<>>)
       \o DocumentLinks(Head(kids).kids) \o DocumentLinks(Tail(kids))

RECURSIVE DocumentMarkers(_)
DocumentMarkers(kids) ==
  IF kids = <<>> THEN 0
  ELSE (IF Head(kids).tag = "h3" THEN 1 ELSE 0)
       + DocumentMarkers(Head(kids).kids) + DocumentMarkers(Tail(kids))

\* The folders of a tree, at any depth
RECURSIVE CountFolders(_)
CountFolders(d) ==
  IF d = <<>> THEN 0
  ELSE (IF Head(d).v.type = "folder" THEN 1 + CountFolders(Head(d).v.children) ELSE 0)
       + CountFolders(Tail(d))

\* C26: the flat-then-rebuild stage places every link of the document once,
\* none dropped and none twice, and every folder-marker once: the folder the
\* import adds holds the links of the document, each as often as the
\* document has it, and as many folders as the document has markers
C26_EveryLinkPlacedOnce ==
  FlatThenRebuild =>
    /\ SameMultiset(DocumentLinks(call.file.soup), NameUrlPairs(AddedByImport))
    /\ CountFolders(AddedByImport) = DocumentMarkers(call.file.soup)

\* The stage dropped the only link of a document, which had no folder-marker
\* above it
C26_Witness ==
  /\ FlatThenRebuild
  /\ call.file = FileRootLink
  /\ Len(DocumentLinks(call.file.soup)) = 1
  /\ Len(data) = Len(prev) + 1
  /\ BookmarkSeq(AddedByImport) = <<>>

(* ------------------- C27: import_json and validation -------------------- *)

\* The last call was an import_json that reported success, made on a tree
\* that validated
ImportJsonSucceeded ==
  /\ call.op = "import_json"
  /\ ret.n > 0
  /\ SimpleValidate(prev).valid

\* C27: after an import_json that reports success the whole tree passes
\* validate_json_schema, so that save() writes it
C27_ImportJsonKeepsTreeValid ==
  ImportJsonSucceeded =>
    /\ SimpleValidate(data).valid
    /\ SaveCall(data, TRUE).ret.log = ""

\* import_json merged a document with a bookmark that has no name, reported
\* 2 items, and left a tree that validation rejects and save() refuses
C27_Witness ==
  /\ ImportJsonSucceeded
  /\ call.file.kind = "json"
  /\ call.file.doc = DocNestedBad
  /\ ret.n = 2
  /\ ~SimpleValidate(data).valid
  /\ SaveCall(data, TRUE).ret.log = "invalid"

(* ------------------- C30: the count of import_html ---------------------- *)

\* C30: the count a successful import_html returns is the number of
\* bookmarks the import added to the tree, whichever stage added them;
\* folders are not counted
C30_CountIsBookmarksAdded ==
  (call.op = "import_html" /\ ret.n > 0) =>
    ret.n = CountUrls(ImportedFolder.children)

\* The flat-then-rebuild stage added bookmarks inside folders and returned
\* the number of bookmarks and folders together
C30_Witness ==
  /\ FlatThenRebuild
  /\ ret.n > 0
  /\ CountUrls(AddedByImport) > 0
  /\ CountFolders(AddedByImport) > 0
  /\ ret.n = CountUrls(AddedByImport) + CountFolders(AddedByImport)

(* ------------------- C28: the shape of the nodes ------------------------ *)

\* Every folder of the tree has the properties type and children and no
\* other, every bookmark type, url, name and icon and no other
RECURSIVE DocumentShape(_)
DocumentShape(d) ==
  \A i \in 1..Len(d) :
    LET item == d[i].v
    IN  /\ IsObject(item)
        /\ "type" \in DOMAIN item
        /\ \/ /\ item.type = "folder"
              /\ DOMAIN item = {"type", "children"}
              /\ IsDict(item.children)
              /\ DocumentShape(item.children)
           \/ /\ item.type = "url"
              /\ DOMAIN item = {"type", "url", "name", "icon"}

\* C28: add_folder, add_url, update_item, delete_item and move_item keep the
\* document shape of the nodes: made on a tree of that shape, as the default
\* tree is, they leave a tree of that shape; renaming a folder adds no
\* property to it
C28_DocumentShapeKept ==
  (call.op \in Mutations /\ DocumentShape(prev)) => DocumentShape(data)

\* update_item renamed a folder of a tree of the document shape, and the
\* folder now has the property name besides type and children
C28_Witness ==
  /\ call.op = "update_item"
  /\ ret.val = "True"
  /\ call.name # call.new_name
  /\ DocumentShape(prev)
  /\ NodeAt(prev, Append(call.path, call.name)).val.type = "folder"
  /\ DOMAIN NodeAt(data, Append(call.path, call.new_name)).val
       = {"type", "children", "name"}

(* ------------------- C24: the lock-guarded DataManager ------------------ *)

\* The thread is in a call of update_item or add_url
InGuardedMutation(t) ==
  /\ threads[t].stack # <<>>
  /\ threads[t].stack[1].op \in {"update_item", "add_url"}

\* The thread is in no call: its last call has returned
Returned(t) == threads[t].stack = <<>>

\* C24: every call of update_item or add_url of the lock-guarded DataManager
\* eventually returns, with one thread calling or with two
C24_EveryCallReturns ==
  /\ InGuardedMutation("t1") ~> Returned("t1")
  /\ InGuardedMutation("t2") ~> Returned("t2")

\* One thread alone is in update_item: it holds the lock and waits for it
\* again in the get_item_at_path it called, while the other thread is in no
\* call
C24_Witness ==
  /\ data_lock
  /\ Returned("t2")
  /\ Len(threads["t1"].stack) = 2
  /\ threads["t1"].stack[1].op = "update_item"
  /\ threads["t1"].stack[1].at = "body"
  /\ threads["t1"].stack[2].op = "get_item_at_path"
  /\ threads["t1"].stack[2].at = "acquire"

====
